---- MODULE Spec2Model ----
(***************************************************************************)
(* gomadore: the request handler, the in-memory page cache, the cache      *)
(* cleaner and the hot-reload file watcher of main.go as one state machine.*)
(*                                                                         *)
(* Paths are sequences of tokens: "/" and "." are the two bytes path.Clean *)
(* tells apart, every other token ("a", "index", "html", ...) stands for a *)
(* run of ordinary bytes.  The clock counts abstract ticks; the cache      *)
(* lifetime (CacheLimit) and the debounce window are both measured in      *)
(* ticks, and nothing below relates the one to the other.                  *)
(***************************************************************************)
EXTENDS Integers, Sequences, FiniteSets, TLC

\* ------------------------------------------------------------------ bounds
\* The clock horizon: the last tick the model lets the clock reach.
MaxTime == 3
\* The newest version a source file is rewritten to.
MaxVer == 1
\* The longest request path tried, in path segments.
MaxSegs == 3
\* The number of file events that wait in watcher.Events.
MaxQueue == 1

\* ------------------------------------------------------- program constants
\* debounceDuration (100 ms), in ticks.
DebounceTicks == 2
\* The max-age a cache hit announces when the cache never expires.
LongMaxAge == 86400
\* MaxCacheItems when the configuration gives none.
DefaultMaxCacheItems == 1000

\* ------------------------------------------------------------------- paths
Slash == "/"
Dot == "."

HasSuffix(s, suf) ==
    /\ Len(s) >= Len(suf)
    /\ SubSeq(s, Len(s) - Len(suf) + 1, Len(s)) = suf

HasPrefix(s, pre) ==
    /\ Len(s) >= Len(pre)
    /\ SubSeq(s, 1, Len(pre)) = pre

TrimSuffix(s, suf) ==
    IF HasSuffix(s, suf) THEN SubSeq(s, 1, Len(s) - Len(suf)) ELSE s

HtmlSuffix == <<".", "html">>
MdSuffix == <<".", "md">>

\* lazybuf backtracking of path.Clean on "..": drop the last element of out.
RECURSIVE Backtrack(_, _, _)
Backtrack(out, w, dotdot) ==
    IF w > dotdot /\ out[w + 1] # Slash
    THEN Backtrack(out, w - 1, dotdot)
    ELSE SubSeq(out, 1, w)

\* The index just past the path element that starts at r.
RECURSIVE ElemEnd(_, _)
ElemEnd(p, r) ==
    IF r <= Len(p) /\ p[r] # Slash THEN ElemEnd(p, r + 1) ELSE r

\* The loop of path.Clean: r reads p (1-based), out is the buffer written.
RECURSIVE CleanLoop(_, _, _, _)
CleanLoop(p, r, out, dotdot) ==
    LET n == Len(p)
        rooted == p[1] = Slash
    IN  IF r > n THEN out
        ELSE IF p[r] = Slash THEN CleanLoop(p, r + 1, out, dotdot)
        ELSE IF p[r] = Dot /\ (r = n \/ p[r + 1] = Slash)
             THEN CleanLoop(p, r + 1, out, dotdot)
        ELSE IF p[r] = Dot /\ p[r + 1] = Dot /\ (r + 1 = n \/ p[r + 2] = Slash)
             THEN IF Len(out) > dotdot
                  THEN CleanLoop(p, r + 2, Backtrack(out, Len(out) - 1, dotdot), dotdot)
                  ELSE IF ~rooted
                       THEN LET o2 == (IF Len(out) > 0 THEN Append(out, Slash) ELSE out)
                                          \o <<Dot, Dot>>
                            IN  CleanLoop(p, r + 2, o2, Len(o2))
                       ELSE CleanLoop(p, r + 2, out, dotdot)
        ELSE LET o1 == IF (rooted /\ Len(out) # 1) \/ (~rooted /\ Len(out) # 0)
                       THEN Append(out, Slash) ELSE out
                 e == ElemEnd(p, r)
             IN  CleanLoop(p, e, o1 \o SubSeq(p, r, e - 1), dotdot)

\* Faulty variant: every "//" is replaced by "/" in one pass from the left
\* and nothing else is done.
CleanReplaceAll(p) ==
    LET scan[i \in 0..Len(p)] ==
            IF i = 0 THEN [out |-> <<>>, open |-> FALSE]
            ELSE LET s == scan[i - 1]
                 IN  IF p[i] = Slash /\ s.open THEN [s EXCEPT !.open = FALSE]
                     ELSE [out |-> Append(s.out, p[i]), open |-> p[i] = Slash]
    IN  scan[Len(p)].out

\* path.Clean
Clean(p) ==
    IF p = <<>> THEN <<Dot>>
    ELSE LET rooted == p[1] = Slash
             out == IF rooted
                    THEN CleanLoop(p, 2, <<Slash>>, 1)
                    ELSE CleanLoop(p, 1, <<>>, 0)
         IN  IF out = <<>> THEN <<Dot>> ELSE out

\* Faulty variant: the trailing slash is put back also on the root.
CleanedPathKeepSlash(p) ==
    IF HasSuffix(p, <<Slash>>) THEN Append(Clean(p), Slash) ELSE Clean(p)

\* The canonical form the handler compares the request path with.
CleanedPath(p) ==
    LET c == Clean(p)
    IN  IF HasSuffix(p, <<Slash>>) /\ c # <<Slash>> THEN Append(c, Slash) ELSE c

\* Faulty variant: the path is not cleaned again after the suffix is cut.
ReqPathNoClean(p) ==
    LET withIndex == IF HasSuffix(p, <<Slash>>) THEN Append(p, "index") ELSE p
    IN  TrimSuffix(withIndex, HtmlSuffix)

\* Faulty variant: the document suffix stays in the key.
ReqPathKeepSuffix(p) ==
    LET withIndex == IF HasSuffix(p, <<Slash>>) THEN Append(p, "index") ELSE p
        c == Clean(withIndex)
    IN  IF c = <<Dot>> THEN <<Slash, "index">> ELSE c

\* The cache key of a canonical request path.
ReqPath(p) ==
    LET withIndex == IF HasSuffix(p, <<Slash>>) THEN Append(p, "index") ELSE p
        c == Clean(TrimSuffix(withIndex, HtmlSuffix))
    IN  IF c = <<Dot>> THEN <<Slash, "index">> ELSE c

\* filepath.Rel(absRoot, absPath) of root + key + ".md"; "root" names the
\* last element of the root directory.
RelPath(key) ==
    IF key = <<Slash>> THEN <<Dot, Dot, Slash, "root">> \o MdSuffix
    ELSE Tail(key) \o MdSuffix

\* Faulty variant: only the parent itself is taken for an escape.
EscapesParentOnly(rel) == rel = <<Dot, Dot>>

\* The traversal test on the relative path.
Escapes(rel) ==
    rel = <<Dot, Dot>> \/ HasPrefix(rel, <<Dot, Dot, Slash>>)

\* ------------------------------------------------------------- durations
\* int and time.Duration are 64 bits wide; a value is held as limbs of 15
\* bits, the lowest first.  Word(x, n): the integer x, 0 <= x < 2^31, in n
\* limbs.
Word(x, n) ==
    [i \in 1..n |-> IF i = 1 THEN x % 32768
                    ELSE IF i = 2 THEN (x \div 32768) % 32768
                    ELSE IF i = 3 THEN x \div 1073741824
                    ELSE 0]

\* a * m + b in the limbs of a, what does not fit dropped; 0 <= m < 2^30.
MulAdd(a, m, b) ==
    LET n == Len(a)
        s == [i \in 1..n |-> a[i] * (m % 32768)
                             + (IF i > 1 THEN a[i - 1] * (m \div 32768) ELSE 0)
                             + b[i]]
        c[i \in 0..n] == IF i = 0 THEN 0 ELSE (s[i] + c[i - 1]) \div 32768
    IN  [i \in 1..n |-> (s[i] + c[i - 1]) % 32768]

\* time.Second, in ns
Second == 1000000000

\* time.Duration(CacheLimit) * time.Second / 2, raised to 60 * time.Second
\* when it is less: the product wraps at 64 bits, a wrapped product with bit
\* 63 set is negative and so is its half.
CleanupInterval(ttl) ==
    LET wide == MulAdd(ttl, Second, Word(0, 5))
        d == [wide EXCEPT ![5] = wide[5] % 16]
        negative == d[5] >= 8
        half == [i \in 1..5 |-> (d[i] \div 2)
                                + (IF i < 5 THEN (d[i + 1] % 2) * 16384 ELSE 0)]
        floor == MulAdd(Word(60, 5), Second, Word(0, 5))
        less == \E i \in 1..5 :
                    half[i] < floor[i] /\ \A j \in (i + 1)..5 : half[j] = floor[j]
    IN  IF negative \/ less THEN floor ELSE half

\* ----------------------------------------------------------- configuration
\* Faulty variant: only the lifetime is clamped.
NormalizeLimitOnly(c) ==
    [c EXCEPT !.CacheLimit = IF c.CacheLimit < 0 THEN 0 ELSE c.CacheLimit]

\* main() clamps the cache settings before the server is built.
NormalizeConfig(c) ==
    [c EXCEPT !.CacheLimit = IF c.CacheLimit < 0 THEN 0 ELSE c.CacheLimit,
              !.MaxCacheItems = IF c.MaxCacheItems < 1 THEN DefaultMaxCacheItems
                                ELSE c.MaxCacheItems]

\* ------------------------------------------------------------- the content
KeyA == <<Slash, "a">>
KeyB == <<Slash, "b">>
KeyIndex == <<Slash, "index">>

\* The request paths clients send to the running server: the two documents,
\* the root, a directory and a path that is not canonical.
ReqPaths ==
    { <<Slash>>,
      KeyA \o HtmlSuffix, KeyB \o HtmlSuffix,
      <<Slash, "a", Slash>>,
      <<Slash, "a", Slash, Slash, "b">> }

\* The path segments requests are built from: empty (a doubled separator),
\* ".", "..", a name, a name with the document suffix, the bare suffix and
\* the suffix after a dot.
Segments ==
    { <<>>, <<Dot>>, <<Dot, Dot>>, <<"a">>, <<"a">> \o HtmlSuffix, HtmlSuffix,
      <<Dot>> \o HtmlSuffix }

\* The rooted paths of n segments; net/http hands the handler rooted paths.
RECURSIVE PathsOf(_)
PathsOf(n) ==
    IF n = 0 THEN {<<>>}
    ELSE {p \o <<Slash>> \o seg : p \in PathsOf(n - 1), seg \in Segments}

AllPaths == UNION {PathsOf(n) : n \in 1..MaxSegs}

NoFile == -1
NoBody == [doc |-> <<>>, ver |-> -1]
NoItem == [Content |-> NoBody, Expires |-> -1]
NoResp == [status |-> 0, xcache |-> "", maxAge |-> -1, body |-> NoBody, location |-> <<>>]
NoLock == "none"
NoTimer == -1

\* A file event: what its name looks like and the operation reported.
\* Directories under the content root, by their path from it: the root, a
\* directory, a directory inside that one, and a hidden directory.
Root == <<>>
DirD == <<"d">>
DirDE == <<"d", "e">>
DirHidden == <<".h">>
AllDirs == {Root, DirD, DirDE, DirHidden}

\* The directories watcher.Add can fail for.
FlakyDirs == {DirD}

Parent(d) == SubSeq(d, 1, Len(d) - 1)

\* filepath.WalkDir from d: d and every directory below it that exists.
Under(d, t) == {x \in t : Len(x) >= Len(d) /\ SubSeq(x, 1, Len(d)) = d}

\* filepath.Base(name) begins with "."
HiddenName(d) == d # Root /\ d[Len(d)] = ".h"

\* The name of an event on a file: no directory has it.
FileName == <<"f">>

MdWrite ==
    [md |-> TRUE, hidden |-> FALSE, backup |-> FALSE, op |-> "write", name |-> FileName]
TxtWrite ==
    [md |-> FALSE, hidden |-> FALSE, backup |-> FALSE, op |-> "write", name |-> FileName]
TxtRemove ==
    [md |-> FALSE, hidden |-> FALSE, backup |-> FALSE, op |-> "remove", name |-> FileName]
HiddenMdWrite ==
    [md |-> TRUE, hidden |-> TRUE, backup |-> FALSE, op |-> "write", name |-> FileName]
BackupRemove ==
    [md |-> FALSE, hidden |-> FALSE, backup |-> TRUE, op |-> "remove", name |-> FileName]

\* File activity that leaves the served documents as they are.
MdChmod ==
    [md |-> TRUE, hidden |-> FALSE, backup |-> FALSE, op |-> "chmod", name |-> FileName]
MdCreate ==
    [md |-> TRUE, hidden |-> FALSE, backup |-> FALSE, op |-> "create", name |-> FileName]
TxtChmod ==
    [md |-> FALSE, hidden |-> FALSE, backup |-> FALSE, op |-> "chmod", name |-> FileName]
TxtRename ==
    [md |-> FALSE, hidden |-> FALSE, backup |-> FALSE, op |-> "rename", name |-> FileName]
HiddenRename ==
    [md |-> FALSE, hidden |-> TRUE, backup |-> FALSE, op |-> "rename", name |-> FileName]
BackupMdWrite ==
    [md |-> TRUE, hidden |-> FALSE, backup |-> TRUE, op |-> "write", name |-> FileName]

\* An event on the directory d.
DirEvent(d, op) ==
    [md |-> FALSE, hidden |-> HiddenName(d), backup |-> FALSE, op |-> op, name |-> d]

OtherEvents == {MdWrite, TxtWrite, TxtRemove, HiddenMdWrite, BackupRemove}

VARIABLES
    cfg,        \* the normalized configuration
    cleanupInterval, \* the interval of the cleaner in ns, <<>> without a cleaner
    now,        \* the clock
    files,      \* key -> version of the source file, for the files that exist
    items,      \* s.cache.items: key -> CacheItem
    writer,     \* the holder of s.cache.Lock, or NoLock
    readers,    \* the holders of s.cache.RLock
    pending,    \* who waits inside s.cache.Lock for the readers to leave, or NoLock
    req,        \* per handler goroutine: position and locals of handleRequest
    resp,       \* the response being written, NoResp when none is
    gc,         \* startCacheCleaner/cleanup: position and keysToDelete
    wt,         \* watchFiles: position, watcher, registered directories, debounceTimer
    events,     \* watcher.Events
    timers,     \* the runtime's armed timers: deadline -> how many
    callbacks,  \* AfterFunc callbacks started and waiting for s.cache.Lock
    burst,      \* history: the events of the current burst and the callbacks it started
    ctx,        \* the context of the background goroutines: "live" or "done"
    tree,       \* the directories that exist under the content root
    out         \* list mode: what printURLList is given, prints and returns

vars == <<cfg, cleanupInterval, now, files, items, writer, readers, pending, req, resp, gc, wt, events,
          timers, callbacks, burst, ctx, tree, out>>

reqVars == <<req, resp>>
lockVars == <<writer, readers, pending>>
envVars == <<cfg, cleanupInterval, now, files, ctx, tree, out>>
gcVars == <<gc>>
watchVars == <<wt, events, timers, callbacks, burst>>

\* ---------------------------------------------------------------- the cache
Remove(m, k) == [x \in DOMAIN m \ {k} |-> m[x]]

Insert(m, k, e) == [x \in DOMAIN m \cup {k} |-> IF x = k THEN e ELSE m[x]]

\* The cache is full and the key is new: one item has to go.
NeedsEvict(c, m, key) ==
    /\ c.MaxCacheItems > 0
    /\ Cardinality(DOMAIN m) >= c.MaxCacheItems
    /\ key \notin DOMAIN m

\* The first key a range over the map yields: any key of it.
Victims(c, m, key) ==
    IF NeedsEvict(c, m, key) THEN DOMAIN m ELSE {key}

\* Faulty variants of the write-locked section: one that never evicts, one
\* that evicts after it has inserted, one that rebuilds the map.
PutNoEvict(c, m, key, e, victim) == Insert(m, key, e)

PutEvictLast(c, m, key, e, victim) ==
    LET full == Insert(m, key, e)
    IN  IF NeedsEvict(c, m, key) THEN Remove(full, CHOOSE k \in DOMAIN full : TRUE)
        ELSE full

PutClobber(c, m, key, e, victim) == Insert(<<>>, key, e)

\* Faulty variant: a full map loses an item also when the key is in it.
PutEvictWhenFull(c, m, key, e, victim) ==
    LET full == c.MaxCacheItems > 0 /\ Cardinality(DOMAIN m) >= c.MaxCacheItems
        others == DOMAIN m \ {key}
    IN  Insert(IF full /\ others # {}
               THEN Remove(m, IF victim \in others THEN victim
                              ELSE CHOOSE k \in others : TRUE)
               ELSE m, key, e)

\* The map as the write-locked section of handleRequest leaves it; victim is
\* the key the range loop yields first.
PutResult(c, m, key, e, victim) ==
    Insert(IF NeedsEvict(c, m, key) THEN Remove(m, victim) ELSE m, key, e)

NewItem(c, body, t) == [Content |-> body, Expires |-> t + c.CacheLimit]

\* Faulty variants of the validity test: one that never looks at Expires, one
\* that takes the instant of expiry as valid, one that always looks at Expires.
IsCacheValidNoExpiry(c, found, item, t) == found

IsCacheValidInclusive(c, found, item, t) ==
    IF c.CacheLimit > 0 THEN found /\ t <= item.Expires ELSE found

IsCacheValidTimed(c, found, item, t) == found /\ t < item.Expires

\* isCacheValid
IsCacheValid(c, found, item, t) ==
    IF c.CacheLimit > 0 THEN found /\ t < item.Expires ELSE found

HitMaxAge(c) == IF c.CacheLimit > 0 THEN c.CacheLimit ELSE LongMaxAge

MissMaxAge(c) == c.CacheLimit

\* What the renderer and the template make of a source file.
Render(key, ver) == [doc |-> key, ver |-> ver]

FileAt(key) == IF key \in DOMAIN files THEN files[key] ELSE NoFile

Redirect(loc) == [NoResp EXCEPT !.status = 301, !.location = loc]
NotFound == [NoResp EXCEPT !.status = 404]
ServerError == [NoResp EXCEPT !.status = 500]
Hit(c, item) ==
    [NoResp EXCEPT !.status = 200, !.xcache = "HIT", !.maxAge = HitMaxAge(c),
                   !.body = item.Content]
Miss(c, body) ==
    [NoResp EXCEPT !.status = 200, !.xcache = "MISS", !.maxAge = MissMaxAge(c),
                   !.body = body]

IdleReq ==
    [pc |-> "idle", path |-> <<>>, key |-> <<>>, found |-> FALSE, item |-> NoItem,
     body |-> NoBody]

\* The process runs: no panic has left a goroutine.
Alive == wt.pc # "crashed"

\* Writing a response touches nothing shared: it is handed over before any
\* other step is taken.  Nothing is taken once the process has ended.
NoWrite == resp = NoResp /\ Alive

\* ------------------------------------------------------- handleRequest
\* Faulty variant: the strict-suffix check comes before the canonical-path
\* check.
RequestSuffixFirst(h, p) ==
    /\ NoWrite
    /\ req[h].pc = "idle"
    /\ IF cfg.StrictHtmlUrl /\ ~HasSuffix(p, HtmlSuffix)
       THEN /\ resp' = NotFound
            /\ req' = [req EXCEPT ![h].pc = "done", ![h].path = p]
       ELSE IF CleanedPath(p) # p
       THEN /\ resp' = Redirect(CleanedPath(p))
            /\ req' = [req EXCEPT ![h].pc = "done", ![h].path = p]
       ELSE /\ req' = [req EXCEPT ![h].pc = "rlock", ![h].path = p,
                                  ![h].key = ReqPath(p)]
            /\ resp' = resp
    /\ UNCHANGED <<envVars, items, lockVars, gcVars, watchVars>>

\* A request arrives: canonical-path check, strict-suffix check, key.
Request(h, p) ==
    /\ NoWrite
    /\ req[h].pc = "idle"
    /\ IF CleanedPath(p) # p
       THEN /\ resp' = Redirect(CleanedPath(p))
            /\ req' = [req EXCEPT ![h].pc = "done", ![h].path = p]
       ELSE IF cfg.StrictHtmlUrl /\ ~HasSuffix(p, HtmlSuffix)
       THEN /\ resp' = NotFound
            /\ req' = [req EXCEPT ![h].pc = "done", ![h].path = p]
       ELSE /\ req' = [req EXCEPT ![h].pc = "rlock", ![h].path = p,
                                  ![h].key = ReqPath(p)]
            /\ resp' = resp
    /\ UNCHANGED <<envVars, items, lockVars, gcVars, watchVars>>

\* Faulty variant: the read does not wait for a writer to leave.
ReqRLockNoWait(h) ==
    /\ NoWrite
    /\ req[h].pc = "rlock"
    /\ readers' = readers \cup {h}
    /\ req' = [req EXCEPT ![h].pc = "read"]
    /\ UNCHANGED <<envVars, items, writer, pending, resp, gcVars, watchVars>>

\* s.cache.RLock()
ReqRLock(h) ==
    /\ NoWrite
    /\ req[h].pc = "rlock"
    /\ writer = NoLock /\ pending = NoLock
    /\ readers' = readers \cup {h}
    /\ req' = [req EXCEPT ![h].pc = "read"]
    /\ UNCHANGED <<envVars, items, writer, pending, resp, gcVars, watchVars>>

\* Faulty variant: the read lock is kept after the lookup.
ReqLookupHold(h) ==
    /\ NoWrite
    /\ req[h].pc = "read"
    /\ LET k == req[h].key
           found == k \in DOMAIN items
       IN  req' = [req EXCEPT ![h].pc = "check", ![h].found = found,
                              ![h].item = IF found THEN items[k] ELSE NoItem]
    /\ UNCHANGED <<envVars, items, lockVars, resp, gcVars, watchVars>>

\* item, found := s.cache.items[reqPath]; s.cache.RUnlock()
ReqLookup(h) ==
    /\ NoWrite
    /\ req[h].pc = "read"
    /\ LET k == req[h].key
           found == k \in DOMAIN items
       IN  req' = [req EXCEPT ![h].pc = "check", ![h].found = found,
                              ![h].item = IF found THEN items[k] ELSE NoItem]
    /\ readers' = readers \ {h}
    /\ UNCHANGED <<envVars, items, writer, pending, resp, gcVars, watchVars>>

\* Faulty variant: a hit pushes the expiry of the item it found further out.
ReqHitTouch(h) ==
    /\ NoWrite
    /\ req[h].pc = "check"
    /\ IsCacheValid(cfg, req[h].found, req[h].item, now)
    /\ resp' = Hit(cfg, req[h].item)
    /\ req' = [req EXCEPT ![h].pc = "done"]
    /\ items' = IF req[h].key \in DOMAIN items
                THEN [items EXCEPT ![req[h].key].Expires = now + cfg.CacheLimit + 1]
                ELSE items
    /\ UNCHANGED <<envVars, lockVars, gcVars, watchVars>>

\* The validity test at time.Now(): a hit answers from the item.
ReqHit(h) ==
    /\ NoWrite
    /\ req[h].pc = "check"
    /\ IsCacheValid(cfg, req[h].found, req[h].item, now)
    /\ resp' = Hit(cfg, req[h].item)
    /\ req' = [req EXCEPT ![h].pc = "done"]
    /\ UNCHANGED <<envVars, items, lockVars, gcVars, watchVars>>

\* Faulty variant: a document that is not there is remembered as such.
ReqMissNegative(h, outcome) ==
    /\ NoWrite
    /\ req[h].pc = "check"
    /\ ~IsCacheValid(cfg, req[h].found, req[h].item, now)
    /\ LET k == req[h].key
       IN  IF Escapes(RelPath(k)) \/ FileAt(k) = NoFile
           THEN /\ resp' = NotFound
                /\ req' = [req EXCEPT ![h].pc = "done"]
                /\ items' = Insert(items, k, NewItem(cfg, NoBody, now))
           ELSE IF outcome # "ok"
           THEN /\ resp' = ServerError
                /\ req' = [req EXCEPT ![h].pc = "done"]
                /\ items' = items
           ELSE /\ req' = [req EXCEPT ![h].pc = "wlock",
                                      ![h].body = Render(k, FileAt(k))]
                /\ resp' = resp
                /\ items' = items
    /\ UNCHANGED <<envVars, lockVars, gcVars, watchVars>>

\* A miss resolves the source file, reads it and renders it.  outcome is what
\* the file system, the renderer and the template do to a file that exists.
ReqMiss(h, outcome) ==
    /\ NoWrite
    /\ req[h].pc = "check"
    /\ ~IsCacheValid(cfg, req[h].found, req[h].item, now)
    /\ LET k == req[h].key
       IN  IF Escapes(RelPath(k)) \/ FileAt(k) = NoFile
           THEN /\ resp' = NotFound
                /\ req' = [req EXCEPT ![h].pc = "done"]
           ELSE IF outcome # "ok"
           THEN /\ resp' = ServerError
                /\ req' = [req EXCEPT ![h].pc = "done"]
           ELSE /\ req' = [req EXCEPT ![h].pc = "wlock",
                                      ![h].body = Render(k, FileAt(k))]
                /\ resp' = resp
    /\ UNCHANGED <<envVars, items, lockVars, gcVars, watchVars>>

\* s.cache.Lock()
ReqWLock(h) ==
    /\ NoWrite
    /\ req[h].pc = "wlock"
    /\ writer = NoLock /\ readers = {} /\ pending \in {NoLock, h}
    /\ writer' = h
    /\ pending' = NoLock
    /\ req' = [req EXCEPT ![h].pc = "put"]
    /\ UNCHANGED <<envVars, items, readers, resp, gcVars, watchVars>>

\* Faulty variant: the file is read again under the write lock.
ReqPutReread(h) ==
    /\ NoWrite
    /\ req[h].pc = "put"
    /\ LET fresh == Render(req[h].key, FileAt(req[h].key))
       IN  /\ \E victim \in Victims(cfg, items, req[h].key) :
                 items' = PutResult(cfg, items, req[h].key, NewItem(cfg, fresh, now),
                                    victim)
           /\ resp' = Miss(cfg, fresh)
           /\ req' = [req EXCEPT ![h].pc = "done", ![h].body = fresh]
    /\ writer' = NoLock
    /\ UNCHANGED <<envVars, readers, pending, gcVars, watchVars>>

\* Evict if full, store the item, s.cache.Unlock(), answer as a miss.
ReqPut(h) ==
    /\ NoWrite
    /\ req[h].pc = "put"
    /\ \E victim \in Victims(cfg, items, req[h].key) :
          items' = PutResult(cfg, items, req[h].key,
                             NewItem(cfg, req[h].body, now), victim)
    /\ writer' = NoLock
    /\ resp' = Miss(cfg, req[h].body)
    /\ req' = [req EXCEPT ![h].pc = "done"]
    /\ UNCHANGED <<envVars, readers, pending, gcVars, watchVars>>

\* The handler returns; its goroutine is free for the next request.
ReqDone(h) ==
    /\ req[h].pc = "done"
    /\ req' = [req EXCEPT ![h] = IdleReq]
    /\ resp' = NoResp
    /\ UNCHANGED <<envVars, items, lockVars, gcVars, watchVars>>

\* ------------------------------------------------------------- the cleaner
IdleGc == [pc |-> "select", keys |-> {}]

\* Faulty variant: the comparison is the wrong way round.
ExpiredKeysReversed(m, t) == {k \in DOMAIN m : t < m[k].Expires}

\* The keys cleanup collects under the read lock.
ExpiredKeys(m, t) == {k \in DOMAIN m : t > m[k].Expires}

\* The map after cleanup's write-locked pass.
DeleteKeys(m, ks) == [x \in DOMAIN m \ ks |-> m[x]]

\* case <-ticker.C: cleanup() takes the read lock.
GcTick ==
    /\ NoWrite
    /\ gc.pc = "select"
    /\ writer = NoLock /\ pending = NoLock
    /\ readers' = readers \cup {"gc"}
    /\ gc' = [gc EXCEPT !.pc = "scan"]
    /\ UNCHANGED <<envVars, items, writer, pending, reqVars, watchVars>>

\* The scan at time.Now(), then RUnlock.
GcScan ==
    /\ NoWrite
    /\ gc.pc = "scan"
    /\ LET ks == ExpiredKeys(items, now)
       IN  gc' = [pc |-> IF ks = {} THEN "select" ELSE "wlock", keys |-> ks]
    /\ readers' = readers \ {"gc"}
    /\ UNCHANGED <<envVars, items, writer, pending, reqVars, watchVars>>

\* s.cache.Lock() of the delete pass.
GcWLock ==
    /\ NoWrite
    /\ gc.pc = "wlock"
    /\ writer = NoLock /\ readers = {} /\ pending \in {NoLock, "gc"}
    /\ writer' = "gc"
    /\ pending' = NoLock
    /\ gc' = [gc EXCEPT !.pc = "delete"]
    /\ UNCHANGED <<envVars, items, readers, reqVars, watchVars>>

\* Faulty variant: the delete pass returns without Unlock.
GcDeleteNoUnlock ==
    /\ NoWrite
    /\ gc.pc = "delete"
    /\ items' = DeleteKeys(items, gc.keys)
    /\ gc' = IdleGc
    /\ UNCHANGED <<envVars, lockVars, reqVars, watchVars>>

\* The delete pass, then Unlock.
GcDelete ==
    /\ NoWrite
    /\ gc.pc = "delete"
    /\ items' = DeleteKeys(items, gc.keys)
    /\ writer' = NoLock
    /\ gc' = IdleGc
    /\ UNCHANGED <<envVars, readers, pending, reqVars, watchVars>>

\* case <-ctx.Done(): the cleaner returns.
GcStop ==
    /\ NoWrite
    /\ gc.pc = "select"
    /\ ctx = "done"
    /\ gc' = [gc EXCEPT !.pc = "stopped"]
    /\ UNCHANGED <<envVars, items, lockVars, reqVars, watchVars>>

\* cleanup panics: at its scan with the read lock held, between its passes,
\* or in its delete pass with the write lock held.  Nothing is unlocked.
GcPanic ==
    /\ NoWrite
    /\ gc.pc \in {"scan", "wlock", "delete"}
    /\ gc' = [gc EXCEPT !.pc = "panic"]
    /\ UNCHANGED <<envVars, items, lockVars, reqVars, watchVars>>

\* The deferred recover() of startCacheCleaner logs the panic; ticker.Stop()
\* runs and the function returns.
GcRecover ==
    /\ NoWrite
    /\ gc.pc = "panic"
    /\ gc' = [gc EXCEPT !.pc = "returned"]
    /\ UNCHANGED <<envVars, items, lockVars, reqVars, watchVars>>

\* ------------------------------------------------------------- the watcher
NoTimers == [d \in {} |-> 0]

Armed(ts, d) == d \in DOMAIN ts /\ ts[d] > 0

\* The deadlines reached by armed timers.
Due(ts, t) == {d \in DOMAIN ts : ts[d] > 0 /\ d <= t}

AddTimer(ts, d) ==
    [x \in DOMAIN ts \cup {d} |-> IF x = d THEN (IF d \in DOMAIN ts THEN ts[d] ELSE 0) + 1
                                  ELSE ts[x]]

DropTimer(ts, d) ==
    LET left == [ts EXCEPT ![d] = ts[d] - 1]
    IN  [x \in {y \in DOMAIN left : left[y] > 0} |-> left[x]]

\* Faulty variant: the timer of the event before is left running.
StopTimerNot(ts, handle) == ts

\* debounceTimer.Stop(): a timer that has not fired yet is disarmed.
StopTimer(ts, handle) ==
    IF handle # NoTimer /\ Armed(ts, handle) THEN DropTimer(ts, handle) ELSE ts

\* An event belongs to the burst of the one before it when it comes before
\* the debounce window of that one has passed.
InBurst(handle, t) == handle # NoTimer /\ t < handle

\* The history counts the events of a burst as one or as many.
Many(n) == IF n < 1 THEN 1 ELSE 2

\* Faulty variant: only one key is dropped.
ClearOneKey(m) ==
    IF DOMAIN m = {} THEN m ELSE Remove(m, CHOOSE k \in DOMAIN m : TRUE)

\* clear(s.cache.items)
ClearItems(m) == <<>>

\* Faulty variant: editor backups are not skipped.
IgnoredHiddenOnly(e) == e.hidden

\* Hidden files and editor backups are skipped.
Ignored(e) == e.hidden \/ e.backup

\* shouldClear
ShouldClear(e) == e.md \/ e.op = "rename" \/ e.op = "remove"

\* watchFiles before fsnotify.NewWatcher(): no watcher, nothing registered.
IdleWatch(hot) ==
    [pc |-> IF hot THEN "init" ELSE "off", watcher |-> "none", watched |-> {},
     debounceTimer |-> NoTimer]

\* Faulty variant: only the directory itself is registered.
AddWatchFlat(root, t, bad) == IF root \in t THEN {root} \ bad ELSE {}

\* addWatchRecursive(root): the walk registers every directory watcher.Add
\* takes; one that it refuses is logged and the walk goes on.
AddWatchRecursive(root, t, bad) == IF root \in t THEN Under(root, t) \ bad ELSE {}

\* The directories watcher.Add may refuse during one walk.
Refusals(t) == SUBSET (FlakyDirs \cap t)

\* Faulty variant: the loop is entered without a watcher.
WatchInitGoOn(ok) ==
    /\ NoWrite
    /\ wt.pc = "init"
    /\ \E bad \in Refusals(tree) :
          wt' = [wt EXCEPT !.pc = "select",
                           !.watcher = IF ok THEN "open" ELSE "none",
                           !.watched = AddWatchRecursive(Root, tree, bad)]
    /\ UNCHANGED <<envVars, items, lockVars, reqVars, gcVars, events, timers,
                   callbacks, burst>>

\* fsnotify.NewWatcher() succeeds or not; on success the directories under
\* the content root are registered, on failure watchFiles logs and returns.
WatchInit(ok) ==
    /\ NoWrite
    /\ wt.pc = "init"
    /\ IF ok
       THEN \E bad \in Refusals(tree) :
               wt' = [wt EXCEPT !.pc = "select", !.watcher = "open",
                                !.watched = AddWatchRecursive(Root, tree, bad)]
       ELSE wt' = [wt EXCEPT !.pc = "failed"]
    /\ UNCHANGED <<envVars, items, lockVars, reqVars, gcVars, events, timers,
                   callbacks, burst>>

\* os.Stat(event.Name) of a Create event says it is a directory.
NewDir(e, t) == e.op = "create" /\ e.name \in t

\* case event := <-watcher.Events.  A timer that is due runs first.
WatchRecv ==
    /\ NoWrite
    /\ wt.pc = "select"
    /\ events # <<>>
    /\ Due(timers, now) = {}
    /\ LET e == Head(events)
       IN  IF Ignored(e)
           THEN UNCHANGED <<timers, wt, burst>>
           ELSE \E bad \in IF NewDir(e, tree) THEN Refusals(tree) ELSE {{}} :
                   LET reg == IF NewDir(e, tree)
                              THEN wt.watched \cup AddWatchRecursive(e.name, tree, bad)
                              ELSE wt.watched
                   IN  IF ShouldClear(e)
                       THEN /\ timers' = AddTimer(StopTimer(timers, wt.debounceTimer),
                                                  now + DebounceTicks)
                            /\ wt' = [wt EXCEPT !.debounceTimer = now + DebounceTicks,
                                                !.watched = reg]
                            /\ burst' = IF InBurst(wt.debounceTimer, now)
                                        THEN [burst EXCEPT !.events = Many(burst.events)]
                                        ELSE [events |-> 1, fires |-> 0]
                       ELSE /\ wt' = [wt EXCEPT !.watched = reg]
                            /\ UNCHANGED <<timers, burst>>
    /\ events' = Tail(events)
    /\ UNCHANGED <<envVars, items, lockVars, reqVars, gcVars, callbacks>>

\* Handling an event panics.
WatchPanic ==
    /\ NoWrite
    /\ wt.pc = "select"
    /\ events # <<>>
    /\ Due(timers, now) = {}
    /\ wt' = [wt EXCEPT !.pc = "panic"]
    /\ events' = Tail(events)
    /\ UNCHANGED <<envVars, items, lockVars, reqVars, gcVars, timers, callbacks,
                   burst>>

\* watchFiles defers watcher.Close() and nothing that recovers: the panic
\* leaves the goroutine and the runtime ends the process.
WatchCrash ==
    /\ NoWrite
    /\ wt.pc = "panic"
    /\ wt' = [wt EXCEPT !.pc = "crashed", !.watcher = "closed"]
    /\ UNCHANGED <<envVars, items, lockVars, reqVars, gcVars, events, timers,
                   callbacks, burst>>

\* The runtime starts the callback of a timer whose deadline is reached.
TimerFire(d) ==
    /\ NoWrite
    /\ Armed(timers, d)
    /\ d <= now
    /\ timers' = DropTimer(timers, d)
    /\ callbacks' = callbacks + 1
    /\ burst' = [burst EXCEPT !.fires = burst.fires + 1]
    /\ UNCHANGED <<envVars, items, lockVars, reqVars, gcVars, wt, events>>

\* The callback: s.cache.Lock()
ClearLock ==
    /\ NoWrite
    /\ callbacks > 0
    /\ writer = NoLock /\ readers = {} /\ pending \in {NoLock, "clear"}
    /\ writer' = "clear"
    /\ pending' = NoLock
    /\ callbacks' = callbacks - 1
    /\ UNCHANGED <<envVars, items, readers, reqVars, gcVars, wt, events, timers,
                   burst>>

\* s.cache.Lock() called while readers hold the lock: the caller waits inside
\* Lock, and sync.RWMutex lets no RLock in until it has had the lock.  The
\* caller is a handler about to put, the cleaner about to delete ("gc") or a
\* clear callback ("clear").
LockCall(w) ==
    /\ NoWrite
    /\ writer = NoLock /\ pending = NoLock /\ readers # {}
    /\ \/ w \in DOMAIN req /\ req[w].pc = "wlock"
       \/ w = "gc" /\ gc.pc = "wlock"
       \/ w = "clear" /\ callbacks > 0
    /\ pending' = w
    /\ UNCHANGED <<envVars, items, writer, readers, reqVars, gcVars, watchVars>>

\* clear(s.cache.items); s.cache.Unlock()
ClearRun ==
    /\ NoWrite
    /\ writer = "clear"
    /\ items' = ClearItems(items)
    /\ writer' = NoLock
    /\ UNCHANGED <<envVars, readers, pending, reqVars, gcVars, watchVars>>

\* The debounced clear panics in the goroutine of its timer, where nothing
\* recovers: the runtime ends the process.
ClearPanic ==
    /\ NoWrite
    /\ writer = "clear"
    /\ wt' = [wt EXCEPT !.pc = "crashed"]
    /\ UNCHANGED <<envVars, items, lockVars, reqVars, gcVars, events, timers,
                   callbacks, burst>>

\* case <-ctx.Done(): the watcher returns and is closed.  The debounce timer
\* is left as it is.
WatchStop ==
    /\ NoWrite
    /\ wt.pc = "select"
    /\ ctx = "done"
    /\ wt' = [wt EXCEPT !.pc = "stopped", !.watcher = "closed"]
    /\ UNCHANGED <<envVars, items, lockVars, reqVars, gcVars, events, timers,
                   callbacks, burst>>

\* ------------------------------------------------------------ environment
\* cancel(): the context of the background goroutines is cancelled.
Cancel ==
    /\ NoWrite
    /\ ctx = "live"
    /\ ctx' = "done"
    /\ UNCHANGED <<cleanupInterval, cfg, now, files, tree, out, items, lockVars, reqVars, gcVars, watchVars>>

\* The watcher delivers events once it runs.
Watching == wt.pc = "select"

\* Room on the clock for the debounce window of an event.
InTime(t) == t + DebounceTicks <= MaxTime

Notify(e) == IF Watching THEN Append(events, e) ELSE events

\* A source file is rewritten.
FsWrite(k) ==
    /\ NoWrite
    /\ k \in DOMAIN files
    /\ files[k] < MaxVer
    /\ Watching => Len(events) < MaxQueue /\ InTime(now)
    /\ files' = [files EXCEPT ![k] = files[k] + 1]
    /\ events' = Notify(MdWrite)
    /\ UNCHANGED <<cleanupInterval, cfg, now, ctx, tree, out, items, lockVars, reqVars, gcVars, wt, timers, callbacks,
                   burst>>

\* A directory is made in one that exists; its parent's watch reports it.
MkDir(d) ==
    /\ NoWrite
    /\ d \in AllDirs \ tree
    /\ Parent(d) \in tree
    /\ tree' = tree \cup {d}
    /\ IF Watching /\ Parent(d) \in wt.watched
       THEN /\ Len(events) < MaxQueue
            /\ events' = Append(events, DirEvent(d, "create"))
       ELSE events' = events
    /\ UNCHANGED <<cleanupInterval, cfg, now, files, ctx, out, items, lockVars, reqVars, gcVars, wt, timers,
                   callbacks, burst>>

\* An empty directory is removed; its parent's watch reports it.
RmDir(d) ==
    /\ NoWrite
    /\ d \in tree \ {Root}
    /\ Under(d, tree) = {d}
    /\ tree' = tree \ {d}
    /\ IF Watching /\ Parent(d) \in wt.watched
       THEN /\ Len(events) < MaxQueue /\ InTime(now)
            /\ events' = Append(events, DirEvent(d, "remove"))
       ELSE events' = events
    /\ UNCHANGED <<cleanupInterval, cfg, now, files, ctx, out, items, lockVars, reqVars, gcVars, wt, timers,
                   callbacks, burst>>

\* Other activity under the root.
FsEvent(e) ==
    /\ NoWrite
    /\ Watching
    /\ Len(events) < MaxQueue /\ InTime(now)
    /\ events' = Append(events, e)
    /\ UNCHANGED <<envVars, items, lockVars, reqVars, gcVars, wt, timers, callbacks,
                   burst>>

\* Time passes: not past a timer that is due, and not into the last window of
\* the horizon while an event waits.
Tick ==
    /\ NoWrite
    /\ now < MaxTime
    /\ Due(timers, now) = {}
    /\ events # <<>> => InTime(now + 1)
    /\ now' = now + 1
    /\ UNCHANGED <<cleanupInterval, cfg, files, ctx, tree, out, items, lockVars, reqVars, gcVars, watchVars>>

\* ---------------------------------------------------------------- list mode
\* The bytes of the tokens that names and URLs are made of.
Bytes(tok) ==
    CASE tok = Slash -> <<47>>
      [] tok = Dot -> <<46>>
      [] tok = "a" -> <<97>>
      [] tok = "b" -> <<98>>
      [] tok = "d" -> <<100>>
      [] tok = "index" -> <<105, 110, 100, 101, 120>>
      [] tok = "md" -> <<109, 100>>
      [] tok = "MD" -> <<77, 68>>
      [] tok = "txt" -> <<116, 120, 116>>
      [] tok = "html" -> <<104, 116, 109, 108>>
      [] tok = "http://127.0.0.1:8080"
            -> <<104, 116, 116, 112, 58, 47, 47, 49, 50, 55, 46, 48, 46, 48, 46, 49,
                 58, 56, 48, 56, 48>>

\* The string a token sequence stands for, byte by byte.
RECURSIVE Flat(_)
Flat(p) == IF p = <<>> THEN <<>> ELSE Bytes(Head(p)) \o Flat(Tail(p))

\* The order of Go strings: byte by byte, a proper prefix first.
StrLess(x, y) ==
    \E i \in 1..(Len(y)) :
        /\ \A j \in 1..(i - 1) : j <= Len(x) /\ x[j] = y[j]
        /\ \/ i = Len(x) + 1
           \/ i <= Len(x) /\ x[i] < y[i]

\* strings.ToLower
ToLower(p) == [i \in DOMAIN p |-> IF p[i] = "MD" THEN "md" ELSE p[i]]

\* d.Name(): what follows the last separator.
RECURSIVE BaseName(_)
BaseName(p) ==
    IF p = <<>> \/ p[Len(p)] = Slash THEN <<>>
    ELSE BaseName(SubSeq(p, 1, Len(p) - 1)) \o <<p[Len(p)]>>

\* fmt.Sprintf("http://%s:%d", host, cfg.General.ListenPort)
BaseURL == "http://127.0.0.1:8080"

\* The entries the walk processes: files whose lowered name ends in .md.
Listed(es) ==
    {e \in es : ~e.dir /\ HasSuffix(ToLower(BaseName(e.path)), MdSuffix)}

\* The URL printURLList makes of the path of a file relative to the root.
ListURL(strict, rel) ==
    LET noExt == TrimSuffix(rel, MdSuffix)
        urlPath == IF strict THEN noExt
                   ELSE IF noExt = <<"index">> THEN <<>>
                   ELSE IF HasSuffix(noExt, <<Slash, "index">>)
                        THEN TrimSuffix(noExt, <<"index">>)
                   ELSE noExt
        prefix == IF HasPrefix(urlPath, <<Slash>>) THEN <<>> ELSE <<Slash>>
    IN  IF urlPath = <<>> THEN <<BaseURL, Slash>>
        ELSE IF strict THEN <<BaseURL>> \o prefix \o urlPath \o HtmlSuffix
        ELSE <<BaseURL>> \o prefix \o urlPath

\* urls = append(urls, fullURL), in the order of the walk.
RECURSIVE Collect(_, _)
Collect(strict, es) ==
    IF es = {} THEN <<>>
    ELSE LET e == CHOOSE x \in es : \A y \in es : ~StrLess(Flat(y.path), Flat(x.path))
         IN  <<ListURL(strict, e.path)>> \o Collect(strict, es \ {e})

\* slices.Sort(urls)
RECURSIVE InsertSorted(_, _)
InsertSorted(u, q) ==
    IF q = <<>> THEN <<u>>
    ELSE IF StrLess(Flat(Head(q)), Flat(u)) THEN <<Head(q)>> \o InsertSorted(u, Tail(q))
    ELSE <<u>> \o q

RECURSIVE SortURLs(_)
SortURLs(q) == IF q = <<>> THEN <<>> ELSE InsertSorted(Head(q), SortURLs(Tail(q)))

\* Not in list mode.
NoList ==
    [pc |-> "off", root |-> "dir", entries |-> {}, urls |-> <<>>, err |-> FALSE]

\* printURLList(cfg): os.Stat of the root, the walk, the sort, the printing.
PrintURLList ==
    /\ out.pc = "list"
    /\ out' = IF out.root # "dir"
              THEN [out EXCEPT !.pc = "listed", !.err = TRUE]
              ELSE [out EXCEPT !.pc = "listed",
                               !.urls = SortURLs(Collect(cfg.StrictHtmlUrl,
                                                         Listed(out.entries)))]
    /\ UNCHANGED <<cleanupInterval, cfg, now, files, ctx, tree, items, lockVars, reqVars, gcVars,
                   watchVars>>

\* --------------------------------------------------------- specifications
\* Faulty variant: the cleaner is started whatever the lifetime.
StartCleanerAlways(raw, hs, docs) ==
    /\ cfg = NormalizeConfig(raw)
    /\ now = 0
    /\ files = [k \in docs |-> 0]
    /\ items = <<>>
    /\ writer = NoLock
    /\ readers = {}
    /\ pending = NoLock
    /\ req = [h \in hs |-> IdleReq]
    /\ resp = NoResp
    /\ gc = IdleGc
    /\ cleanupInterval = CleanupInterval(Word(cfg.CacheLimit, 5))
    /\ wt = IdleWatch(cfg.HotReload)
    /\ events = <<>>
    /\ timers = NoTimers
    /\ callbacks = 0
    /\ burst = [events |-> 0, fires |-> 0]
    /\ ctx = "live"
    /\ tree = {Root}
    /\ out = NoList

\* The state main() leaves: an empty cache, the cleaner started when the
\* cache expires, the watcher started when hot reload is on.
Start(raw, hs, docs) ==
    /\ cfg = NormalizeConfig(raw)
    /\ now = 0
    /\ files = [k \in docs |-> 0]
    /\ items = <<>>
    /\ writer = NoLock
    /\ readers = {}
    /\ pending = NoLock
    /\ req = [h \in hs |-> IdleReq]
    /\ resp = NoResp
    /\ gc = IF cfg.CacheLimit > 0 THEN IdleGc ELSE [IdleGc EXCEPT !.pc = "off"]
    /\ cleanupInterval = IF cfg.CacheLimit > 0
                         THEN CleanupInterval(Word(cfg.CacheLimit, 5)) ELSE <<>>
    /\ wt = IdleWatch(cfg.HotReload)
    /\ events = <<>>
    /\ timers = NoTimers
    /\ callbacks = 0
    /\ burst = [events |-> 0, fires |-> 0]
    /\ ctx = "live"
    /\ tree = {Root}
    /\ out = NoList

Handlers == DOMAIN req

\* Two handlers on two documents; with them the cleaner when the cache
\* expires, the watcher when hot reload is on.
RawConfigs ==
    { [CacheLimit |-> 1, MaxCacheItems |-> 1, HotReload |-> FALSE, StrictHtmlUrl |-> FALSE],
      [CacheLimit |-> -1, MaxCacheItems |-> 0, HotReload |-> FALSE, StrictHtmlUrl |-> FALSE],
      [CacheLimit |-> 2, MaxCacheItems |-> 0, HotReload |-> FALSE, StrictHtmlUrl |-> TRUE],
      [CacheLimit |-> -1, MaxCacheItems |-> 1, HotReload |-> TRUE, StrictHtmlUrl |-> FALSE] }

Init == \E raw \in RawConfigs : Start(raw, {"h1", "h2"}, {KeyA, KeyB})

Next ==
    \/ \E h \in Handlers, p \in ReqPaths : Request(h, p)
    \/ \E h \in Handlers : ReqRLock(h)
    \/ \E h \in Handlers : ReqLookup(h)
    \/ \E h \in Handlers : ReqHit(h)
    \/ \E h \in Handlers, o \in {"ok", "fail"} : ReqMiss(h, o)
    \/ \E h \in Handlers : ReqWLock(h)
    \/ \E h \in Handlers : ReqPut(h)
    \/ \E h \in Handlers : ReqDone(h)
    \/ GcTick
    \/ GcScan
    \/ GcWLock
    \/ GcDelete
    \/ \E ok \in BOOLEAN : WatchInit(ok)
    \/ FsEvent(MdWrite)
    \/ WatchRecv
    \/ \E d \in DOMAIN timers : TimerFire(d)
    \/ ClearLock
    \/ ClearRun
    \/ Tick

Spec == Init /\ [][Next]_vars

\* Hot reload: one handler and the watcher while one document is rewritten
\* and other files under the root come and go.
ReloadConfigs ==
    { [CacheLimit |-> 0, MaxCacheItems |-> 2, HotReload |-> TRUE, StrictHtmlUrl |-> FALSE] }

ReloadEvents == {TxtWrite, TxtRemove}

InitReload == \E raw \in ReloadConfigs : Start(raw, {"h1"}, {KeyA, KeyB})

NextReload ==
    \/ \E h \in Handlers, p \in ReqPaths : Request(h, p)
    \/ \E h \in Handlers : ReqRLock(h)
    \/ \E h \in Handlers : ReqLookup(h)
    \/ \E h \in Handlers : ReqHit(h)
    \/ \E h \in Handlers, o \in {"ok", "fail"} : ReqMiss(h, o)
    \/ \E h \in Handlers : ReqWLock(h)
    \/ \E h \in Handlers : ReqPut(h)
    \/ \E h \in Handlers : ReqDone(h)
    \/ \E ok \in BOOLEAN : WatchInit(ok)
    \/ FsWrite(KeyA)
    \/ \E e \in ReloadEvents : FsEvent(e)
    \/ WatchRecv
    \/ \E d \in DOMAIN timers : TimerFire(d)
    \/ ClearLock
    \/ ClearRun
    \/ Tick

SpecReload == InitReload /\ [][NextReload]_vars

\* The scheduling the runtime gives: a goroutine that can run does run, a
\* response on its way is handed over, sync.RWMutex lets no Lock or RLock wait
\* for ever, a timer that is due fires, and time passes.
\* A handler between accepting its request and handing over its response: it
\* is at one place at a time, so one condition covers its steps.
HandlerStep(h) ==
    \/ ReqRLock(h)
    \/ ReqLookup(h)
    \/ ReqHit(h)
    \/ \E o \in {"ok", "fail"} : ReqMiss(h, o)
    \/ ReqWLock(h)
    \/ ReqPut(h)
    \/ ReqDone(h)

\* The callback of a timer that fired.
CallbackStep == ClearLock \/ ClearRun

\* Hot reload while one document is rewritten.
NextQuiet ==
    \/ \E h \in Handlers, p \in ReqPaths : Request(h, p)
    \/ \E h \in Handlers : HandlerStep(h)
    \/ \E ok \in BOOLEAN : WatchInit(ok)
    \/ FsWrite(KeyA)
    \/ WatchRecv
    \/ \E d \in DOMAIN timers : TimerFire(d)
    \/ CallbackStep
    \/ Tick

FairReload ==
    /\ InitReload
    /\ [][NextQuiet]_vars
    /\ SF_vars(HandlerStep("h1"))
    /\ SF_vars(WatchRecv)
    /\ SF_vars(\E d \in DOMAIN timers : TimerFire(d))
    /\ SF_vars(CallbackStep)
    /\ SF_vars(Tick)

\* The cleaner beside one handler, with a finite lifetime.
SweepConfigs ==
    { [CacheLimit |-> 1, MaxCacheItems |-> 0, HotReload |-> FALSE, StrictHtmlUrl |-> FALSE] }

InitSweep == \E raw \in SweepConfigs : Start(raw, {"h1"}, {KeyA, KeyB})

\* startCacheCleaner from one tick of its ticker to the end of cleanup.
SweepStep == GcTick \/ GcScan \/ GcWLock \/ GcDelete

NextSweep ==
    \/ \E h \in Handlers, p \in ReqPaths : Request(h, p)
    \/ \E h \in Handlers : HandlerStep(h)
    \/ SweepStep
    \/ Tick

\* The ticker keeps ticking and cleanup gets its locks.
FairSweep ==
    /\ InitSweep
    /\ [][NextSweep]_vars
    /\ SF_vars(HandlerStep("h1"))
    /\ SF_vars(SweepStep)

\* Shutdown and failure of the background goroutines: the cleaner and the
\* watcher beside one handler, until the context is cancelled and after.
StopConfigs ==
    { [CacheLimit |-> 1, MaxCacheItems |-> 0, HotReload |-> TRUE, StrictHtmlUrl |-> FALSE] }

InitStop == \E raw \in StopConfigs : Start(raw, {"h1"}, {KeyA})

NextStop ==
    \/ \E h \in Handlers : Request(h, KeyA \o HtmlSuffix)
    \/ \E h \in Handlers : HandlerStep(h)
    \/ SweepStep
    \/ GcPanic
    \/ GcRecover
    \/ GcStop
    \/ \E ok \in BOOLEAN : WatchInit(ok)
    \/ FsEvent(MdWrite)
    \/ WatchRecv
    \/ \E d \in DOMAIN timers : TimerFire(d)
    \/ CallbackStep
    \/ WatchStop
    \/ Cancel
    \/ Tick

SpecStop == InitStop /\ [][NextStop]_vars

\* Parallel handlers alone: the cache never expires, has room for every
\* document, and nothing is watched.
ParallelConfigs ==
    { [CacheLimit |-> 0, MaxCacheItems |-> 0, HotReload |-> FALSE, StrictHtmlUrl |-> FALSE] }

InitParallel == \E raw \in ParallelConfigs : Start(raw, {"h1", "h2"}, {KeyA, KeyB})

NextParallel ==
    \/ \E h \in Handlers, p \in ReqPaths : Request(h, p)
    \/ \E h \in Handlers : ReqRLock(h)
    \/ \E h \in Handlers : ReqLookup(h)
    \/ \E h \in Handlers : ReqHit(h)
    \/ \E h \in Handlers, o \in {"ok", "fail"} : ReqMiss(h, o)
    \/ \E h \in Handlers : ReqWLock(h)
    \/ \E h \in Handlers : ReqPut(h)
    \/ \E h \in Handlers : ReqDone(h)

FairParallel ==
    /\ InitParallel
    /\ [][NextParallel]_vars
    /\ \A h \in {"h1", "h2"} : SF_vars(HandlerStep(h))

\* The watcher alone: files and directories under the content root come, go
\* and change while it runs, from before fsnotify.NewWatcher() on.
WatchConfigs ==
    { [CacheLimit |-> 0, MaxCacheItems |-> 0, HotReload |-> TRUE, StrictHtmlUrl |-> FALSE] }

WatchEvents ==
    {MdWrite, MdCreate, MdChmod, TxtWrite, TxtChmod, TxtRename, TxtRemove,
     HiddenMdWrite, HiddenRename, BackupRemove, BackupMdWrite}

InitWatch == \E raw \in WatchConfigs : Start(raw, {"h1"}, {KeyA})

NextWatch ==
    \/ \E ok \in BOOLEAN : WatchInit(ok)
    \/ \E e \in WatchEvents : FsEvent(e)
    \/ \E d \in AllDirs : MkDir(d)
    \/ \E d \in AllDirs : RmDir(d)
    \/ WatchRecv
    \/ WatchPanic
    \/ WatchCrash
    \/ \E d \in DOMAIN timers : TimerFire(d)
    \/ ClearLock
    \/ ClearRun
    \/ ClearPanic
    \/ Tick

SpecWatch == InitWatch /\ [][NextWatch]_vars

\* List mode: main() calls printURLList and exits; nothing is served.  The
\* root is a directory, is missing, or is a file; under it are documents, one
\* with an upper-case extension, one named ".md", a text file and a directory
\* whose name ends in .md.
ListConfigs ==
    { [CacheLimit |-> 0, MaxCacheItems |-> 0, HotReload |-> FALSE, StrictHtmlUrl |-> FALSE],
      [CacheLimit |-> 0, MaxCacheItems |-> 0, HotReload |-> FALSE, StrictHtmlUrl |-> TRUE] }

ListEntries ==
    { [path |-> <<"index", Dot, "md">>, dir |-> FALSE],
      [path |-> <<"a", Dot, "md">>, dir |-> FALSE],
      [path |-> <<"d", Slash, "index", Dot, "md">>, dir |-> FALSE],
      [path |-> <<"d", Slash, "a", Dot, "md">>, dir |-> FALSE],
      [path |-> <<"b", Dot, "MD">>, dir |-> FALSE],
      [path |-> <<Dot, "md">>, dir |-> FALSE],
      [path |-> <<"a", Dot, "txt">>, dir |-> FALSE],
      [path |-> <<"b", Dot, "md">>, dir |-> TRUE] }

InitList ==
    \E raw \in ListConfigs, root \in {"dir", "missing", "file"},
       es \in SUBSET ListEntries :
        /\ cfg = raw
        /\ now = 0
        /\ files = <<>>
        /\ items = <<>>
        /\ writer = NoLock
        /\ readers = {}
        /\ pending = NoLock
        /\ req = <<>>
        /\ resp = NoResp
        /\ gc = [IdleGc EXCEPT !.pc = "off"]
        /\ cleanupInterval = <<>>
        /\ wt = IdleWatch(FALSE)
        /\ events = <<>>
        /\ timers = NoTimers
        /\ callbacks = 0
        /\ burst = [events |-> 0, fires |-> 0]
        /\ ctx = "live"
        /\ tree = {Root}
        /\ out = [pc |-> "list", root |-> root,
                  entries |-> IF root = "dir" THEN es ELSE {},
                  urls |-> <<>>, err |-> FALSE]

NextList == PrintURLList

SpecList == InitList /\ [][NextList]_vars

\* Eviction: two handlers on three documents and a cache with room for two
\* that never expires.
EvictConfigs ==
    { [CacheLimit |-> 0, MaxCacheItems |-> 2, HotReload |-> FALSE, StrictHtmlUrl |-> FALSE] }

InitEvict == \E raw \in EvictConfigs : Start(raw, {"h1", "h2"}, {KeyA, KeyB, KeyIndex})

NextEvict ==
    \/ \E h \in Handlers, p \in ReqPaths : Request(h, p)
    \/ \E h \in Handlers : ReqRLock(h)
    \/ \E h \in Handlers : ReqLookup(h)
    \/ \E h \in Handlers : ReqHit(h)
    \/ \E h \in Handlers, o \in {"ok", "fail"} : ReqMiss(h, o)
    \/ \E h \in Handlers : ReqWLock(h)
    \/ \E h \in Handlers : ReqPut(h)
    \/ \E h \in Handlers : ReqDone(h)

SpecEvict == InitEvict /\ [][NextEvict]_vars

\* One handler and every request path up to MaxSegs segments, with and
\* without the strict suffix.  Among the files are a document in a directory
\* and the sibling of the root the key "/" resolves to.
\* The names of one document: a directory, its index document with and
\* without the suffix, and a plain document with and without the suffix.
AliasPaths ==
    { <<Slash, "d", Slash>>,
      <<Slash, "d", Slash, "index">>,
      <<Slash, "d", Slash, "index">> \o HtmlSuffix,
      KeyA,
      KeyA \o HtmlSuffix }

\* Without strict mode, a cache that neither expires nor is cleared, and two
\* documents, d/index.md and a.md.
InitAlias ==
    Start([CacheLimit |-> 0, MaxCacheItems |-> 0, HotReload |-> FALSE,
           StrictHtmlUrl |-> FALSE],
          {"h1"}, {<<Slash, "d", Slash, "index">>, KeyA})

NextAlias ==
    \/ \E h \in Handlers, p \in AliasPaths : Request(h, p)
    \/ \E h \in Handlers : ReqRLock(h)
    \/ \E h \in Handlers : ReqLookup(h)
    \/ \E h \in Handlers : ReqHit(h)
    \/ \E h \in Handlers, o \in {"ok", "fail"} : ReqMiss(h, o)
    \/ \E h \in Handlers : ReqWLock(h)
    \/ \E h \in Handlers : ReqPut(h)
    \/ \E h \in Handlers : ReqDone(h)

SpecAlias == InitAlias /\ [][NextAlias]_vars

\* Handlers, the cleaner and the debounced clear together on one lock: the
\* cache expires, hot reload is on and a document is rewritten.
InitAll ==
    Start([CacheLimit |-> 1, MaxCacheItems |-> 0, HotReload |-> TRUE,
           StrictHtmlUrl |-> FALSE],
          {"h1", "h2"}, {KeyA})

NextAll ==
    \/ \E h \in Handlers : Request(h, KeyA \o HtmlSuffix)
    \/ \E h \in Handlers : HandlerStep(h)
    \/ SweepStep
    \/ \E ok \in BOOLEAN : WatchInit(ok)
    \/ FsEvent(MdWrite)
    \/ WatchRecv
    \/ \E d \in DOMAIN timers : TimerFire(d)
    \/ CallbackStep
    \/ \E w \in {"h1", "h2", "gc", "clear"} : LockCall(w)
    \/ Tick

\* A goroutine that can run does run, be it with a step of its own or with
\* its call of Lock.
FairAll ==
    /\ InitAll
    /\ [][NextAll]_vars
    /\ \A h \in {"h1", "h2"} : SF_vars(HandlerStep(h) \/ LockCall(h))
    /\ SF_vars(SweepStep \/ LockCall("gc"))
    /\ SF_vars(CallbackStep \/ LockCall("clear"))

\* List mode over a root, then the server on the same root with the same
\* setting, asked for the URLs the list shows.  A file is found under the key
\* that, with ".md" appended, spells its path below the root.
InitServe ==
    \E raw \in ListConfigs,
       es \in SUBSET { [path |-> <<"index", Dot, "md">>, dir |-> FALSE],
                       [path |-> <<"a", Dot, "md">>, dir |-> FALSE],
                       [path |-> <<"d", Slash, "index", Dot, "md">>, dir |-> FALSE],
                       [path |-> <<"b", Dot, "MD">>, dir |-> FALSE],
                       [path |-> <<Dot, "md">>, dir |-> FALSE] } :
        /\ cfg = NormalizeConfig(raw)
        /\ now = 0
        /\ files = [k \in {<<Slash>> \o TrimSuffix(e.path, MdSuffix) :
                              e \in {x \in es : /\ HasSuffix(x.path, MdSuffix)
                                                /\ x.path # MdSuffix}}
                      |-> 0]
        /\ items = <<>>
        /\ writer = NoLock
        /\ readers = {}
        /\ pending = NoLock
        /\ req = [h \in {"h1"} |-> IdleReq]
        /\ resp = NoResp
        /\ gc = [IdleGc EXCEPT !.pc = "off"]
        /\ cleanupInterval = <<>>
        /\ wt = IdleWatch(FALSE)
        /\ events = <<>>
        /\ timers = NoTimers
        /\ callbacks = 0
        /\ burst = [events |-> 0, fires |-> 0]
        /\ ctx = "live"
        /\ tree = {Root}
        /\ out = [pc |-> "list", root |-> "dir", entries |-> es,
                  urls |-> <<>>, err |-> FALSE]

\* A request is for one of the URLs printed: its path is what follows the
\* base URL.  Rendering does not fail.
NextServe ==
    \/ PrintURLList
    \/ \E h \in Handlers, i \in DOMAIN out.urls : Request(h, Tail(out.urls[i]))
    \/ \E h \in Handlers : ReqRLock(h)
    \/ \E h \in Handlers : ReqLookup(h)
    \/ \E h \in Handlers : ReqHit(h)
    \/ \E h \in Handlers : ReqMiss(h, "ok")
    \/ \E h \in Handlers : ReqWLock(h)
    \/ \E h \in Handlers : ReqPut(h)
    \/ \E h \in Handlers : ReqDone(h)

SpecServe == InitServe /\ [][NextServe]_vars

\* main() before the cleaner is started, the lifetime at its full width:
\* 0, 1, 60, 119, 120, 121, 240, 86400, 2^31 - 1, 2^31, 9223372036,
\* 9223372037 and 18446744074 seconds, written as thousand millions and rest.
InitBoot ==
    \E t \in { <<0, 0>>, <<0, 1>>, <<0, 60>>, <<0, 119>>, <<0, 120>>, <<0, 121>>,
               <<0, 240>>, <<0, 86400>>, <<2, 147483647>>, <<2, 147483648>>,
               <<9, 223372036>>, <<9, 223372037>>, <<18, 446744074>> },
       max \in {1, DefaultMaxCacheItems}, hot \in BOOLEAN, strict \in BOOLEAN :
        /\ cfg = [CacheLimit |-> MulAdd(Word(t[1], 5), Second, Word(t[2], 5)),
                  MaxCacheItems |-> max, HotReload |-> hot, StrictHtmlUrl |-> strict]
        /\ cleanupInterval = <<>>
        /\ now = 0
        /\ files = <<>>
        /\ items = <<>>
        /\ writer = NoLock
        /\ readers = {}
        /\ pending = NoLock
        /\ req = [h \in {"h1"} |-> IdleReq]
        /\ resp = NoResp
        /\ gc = [IdleGc EXCEPT !.pc = "boot"]
        /\ wt = IdleWatch(hot)
        /\ events = <<>>
        /\ timers = NoTimers
        /\ callbacks = 0
        /\ burst = [events |-> 0, fires |-> 0]
        /\ ctx = "live"
        /\ tree = {Root}
        /\ out = NoList

\* if cfg.Cache.CacheLimit > 0 { cleanupInterval := ...; go startCacheCleaner }
StartCleaner ==
    /\ gc.pc = "boot"
    /\ IF cfg.CacheLimit # Word(0, 5) /\ cfg.CacheLimit[5] < 8
       THEN /\ cleanupInterval' = CleanupInterval(cfg.CacheLimit)
            /\ gc' = IdleGc
       ELSE /\ cleanupInterval' = <<>>
            /\ gc' = [IdleGc EXCEPT !.pc = "off"]
    /\ UNCHANGED <<cfg, now, files, ctx, tree, out, items, lockVars, reqVars, watchVars>>

SpecBoot == InitBoot /\ [][StartCleaner]_vars

PathConfigs ==
    { [CacheLimit |-> 0, MaxCacheItems |-> 0, HotReload |-> FALSE, StrictHtmlUrl |-> FALSE],
      [CacheLimit |-> 0, MaxCacheItems |-> 0, HotReload |-> FALSE, StrictHtmlUrl |-> TRUE] }

PathDocs == {KeyA, KeyA \o KeyA, <<Slash>>}

InitPaths == \E raw \in PathConfigs : Start(raw, {"h1"}, PathDocs)

NextPaths ==
    \/ \E h \in Handlers, p \in AllPaths : Request(h, p)
    \/ \E h \in Handlers : ReqRLock(h)
    \/ \E h \in Handlers : ReqLookup(h)
    \/ \E h \in Handlers : ReqHit(h)
    \/ \E h \in Handlers, o \in {"ok", "fail"} : ReqMiss(h, o)
    \/ \E h \in Handlers : ReqWLock(h)
    \/ \E h \in Handlers : ReqPut(h)
    \/ \E h \in Handlers : ReqDone(h)

SpecPaths == InitPaths /\ [][NextPaths]_vars

\* ------------------------------------------------------------------ claims
\* The handler whose response is being written.
Responding(h) == req[h].pc = "done"

Finite == cfg.CacheLimit > 0

\* C1: while no Put is in progress the cache holds at most MaxCacheItems
\* items, whatever handlers, cleaner and watcher do in between.
C1_SizeBound ==
    (\A h \in Handlers : req[h].pc # "put")
        => Cardinality(DOMAIN items) <= cfg.MaxCacheItems

\* A Put has just completed on a full cache while another Put for a key that
\* is not cached waits for the lock.
C1_Witness ==
    /\ resp.xcache = "MISS"
    /\ Cardinality(DOMAIN items) = cfg.MaxCacheItems
    /\ \E h \in Handlers : req[h].pc = "wlock" /\ req[h].key \notin DOMAIN items

\* C2: when a Put releases the write lock its key is in the cache, with the
\* item that Put made, also when the Put evicted.
C2_KeyPresent ==
    \A h \in Handlers :
        Responding(h) /\ resp.xcache = "MISS"
            => /\ writer = NoLock
               /\ req[h].key \in DOMAIN items
               /\ items[req[h].key] = NewItem(cfg, req[h].body, now)

\* A Put has evicted: the other handler still holds the item it found under
\* a key that is gone, and neither the cleaner nor the watcher runs.
C2_Witness ==
    /\ resp.xcache = "MISS"
    /\ gc.pc = "off" /\ wt.pc = "failed"
    /\ Cardinality(DOMAIN items) = cfg.MaxCacheItems
    /\ \E h, g \in Handlers :
          /\ Responding(h)
          /\ req[g].pc = "check" /\ req[g].found /\ req[g].key \notin DOMAIN items

\* The lookup under the read lock reads the map as it is.
LookupReadsMap ==
    \A h \in Handlers :
        req[h].pc = "read" /\ req'[h].pc = "check"
            => /\ req'[h].found = (req[h].key \in DOMAIN items)
               /\ req'[h].found => req'[h].item = items[req[h].key]

\* The answer to a request for a document that exists and renders, when the
\* cache expires: a miss when the key was not cached, a hit when the item
\* found has not expired, a miss that replaces the item when it has.
AnswerByExpiry ==
    Finite =>
        \A h \in Handlers :
            Responding(h) /\ req[h].key \in DOMAIN files /\ resp.status # 500
                => /\ resp.status = 200
                   /\ ~req[h].found => resp.xcache = "MISS"
                   /\ req[h].found /\ now < req[h].item.Expires => resp.xcache = "HIT"
                   /\ req[h].found /\ now >= req[h].item.Expires
                        => /\ resp.xcache = "MISS"
                           /\ items[req[h].key] = NewItem(cfg, req[h].body, now)

\* C3: with a finite lifetime the first request for a key is a miss, a request
\* that finds the item before it expires is a hit, and the first request
\* after it has expired is a miss again and replaces the item.
C3_MissHitMiss == []AnswerByExpiry /\ [][LookupReadsMap]_vars

\* An item found expired has been rendered again and replaced.
C3_Witness ==
    /\ Finite
    /\ resp.xcache = "MISS"
    /\ \E h \in Handlers :
          /\ Responding(h)
          /\ req[h].found /\ now >= req[h].item.Expires
          /\ items[req[h].key].Expires > now

\* C4: with a finite lifetime a hit is answered only from an item whose Expires
\* lies after the time of the test, Expires being the time of the Put plus the
\* lifetime: no item in the cache was put later than now, so the content of a
\* hit was put less than CacheLimit ticks before.
C4_HitIsFresh ==
    Finite =>
        /\ \A k \in DOMAIN items : items[k].Expires <= now + cfg.CacheLimit
        /\ \A h \in Handlers :
              /\ Responding(h) /\ resp.xcache = "HIT"
                    => /\ req[h].found
                       /\ now < req[h].item.Expires
                       /\ now - (req[h].item.Expires - cfg.CacheLimit) < cfg.CacheLimit
              /\ Responding(h) /\ resp.xcache = "MISS"
                    => items[req[h].key].Expires = now + cfg.CacheLimit

\* A hit is answered while an expired item is still in the cache.
C4_Witness ==
    /\ Finite
    /\ resp.xcache = "HIT"
    /\ \E k \in DOMAIN items : now >= items[k].Expires

\* C5: when the cache never expires, a request that finds its key is a hit,
\* whatever Expires the item records.
C5_IndefiniteHit ==
    ~Finite =>
        \A h \in Handlers :
            Responding(h) /\ req[h].found
                => /\ resp.status = 200
                   /\ resp.xcache = "HIT"
                   /\ resp.body = req[h].item.Content

\* A hit from an item whose Expires lies the whole horizon back.
C5_Witness ==
    /\ ~Finite
    /\ resp.xcache = "HIT"
    /\ \E h \in Handlers :
          Responding(h) /\ req[h].found /\ req[h].item.Expires + MaxTime <= now

\* C6: every 200 response announces max-age = CacheLimit when the cache
\* expires and the long max-age when it never does.
C6_MaxAge ==
    resp.status = 200
        => resp.maxAge = IF cfg.CacheLimit > 0 THEN cfg.CacheLimit ELSE LongMaxAge

\* C7: the delete pass of cleanup removes only items that have expired.
C7_SweepExact ==
    [][gc.pc = "delete" /\ gc'.pc = "select"
          => \A k \in DOMAIN items \ DOMAIN items' : now > items[k].Expires]_vars

\* The only timer armed is the one the last relevant event started, a burst
\* has its timer fire at most once, and once the window of its last event has
\* passed it has fired.
OneTimerPerBurst ==
    /\ \A d \in DOMAIN timers : d = wt.debounceTimer /\ timers[d] = 1
    /\ burst.fires <= 1
    /\ burst.events >= 1 /\ now > wt.debounceTimer => burst.fires = 1
    /\ burst.events >= 1 /\ burst.fires = 0 => Armed(timers, wt.debounceTimer)

\* A callback starts no earlier than the window after the last relevant event,
\* and a relevant event inside the window starts no callback of its own.
FiresAfterLastEvent ==
    /\ callbacks' > callbacks => now >= wt.debounceTimer /\ burst.fires = 0
    /\ wt'.debounceTimer # wt.debounceTimer
          => /\ callbacks' = callbacks
             /\ wt'.debounceTimer = now + DebounceTicks
             /\ ~Armed(timers', wt.debounceTimer)

\* Each callback clears the cache once.
CallbackClears ==
    /\ writer' = "clear" /\ writer # "clear" => callbacks' = callbacks - 1
    /\ writer = "clear" /\ writer' # "clear" => items' = <<>>
    /\ items # <<>> /\ items' = <<>> => writer = "clear"

\* C8: a burst of relevant events, each inside the debounce window of the one
\* before, clears the cache exactly once, after its last event; a timer that
\* was reset never clears.
C8_DebounceOnce ==
    []OneTimerPerBurst /\ [][FiresAfterLastEvent /\ CallbackClears]_vars

\* A burst of several events is over: its one callback has run and the cache,
\* filled meanwhile, is empty.
C8_Witness ==
    /\ burst.events > 1 /\ burst.fires = 1
    /\ callbacks = 0 /\ writer = NoLock
    /\ now > wt.debounceTimer
    /\ items = <<>>
    /\ \E h \in Handlers : Responding(h) /\ resp.xcache = "HIT"

\* A relevant change is on its way to a clear: its event waits to be received,
\* or its timer runs.
ChangePending ==
    \/ events # <<>> /\ ~Ignored(Head(events)) /\ ShouldClear(Head(events))
    \/ Armed(timers, wt.debounceTimer)

\* C9: with hot reload running, a relevant change is followed by a clear of
\* the whole cache: whatever items it held when the change came, every key is
\* gone, not only the key of the file that changed.
C9_ReloadClearsAll ==
    /\ (Watching /\ ChangePending /\ items # <<>>) ~> (items = <<>>)
    /\ [][writer = "clear" /\ writer' = NoLock => DOMAIN items' = {}]_vars

\* One file has changed and its timer runs while the cache holds both
\* documents.
C9_Witness ==
    /\ Watching
    /\ Armed(timers, wt.debounceTimer)
    /\ \E k \in DOMAIN files : files[k] > 0
    /\ \E k \in DOMAIN files : files[k] = 0
    /\ DOMAIN items = {KeyA, KeyB}

\* A Put keeps every other key and its item.
PutKeepsOthers ==
    /\ DOMAIN items \subseteq DOMAIN items'
    /\ \A h \in Handlers :
          req[h].pc = "put" /\ req'[h].pc = "done"
              => /\ req[h].key \in DOMAIN items'
                 /\ \A k \in DOMAIN items \ {req[h].key} : items'[k] = items[k]

\* Every key a handler has answered with a rendering is in the cache.
NoneLost ==
    /\ Cardinality(DOMAIN items) <= cfg.MaxCacheItems
    /\ \A h \in Handlers :
          Responding(h) /\ resp.status = 200 => req[h].key \in DOMAIN items

\* C10: handlers running in parallel on the same and on different keys all
\* complete; with room for every key and neither clear nor sweep no Put is
\* lost or overwritten by the Put of another key, and the size bound holds in
\* every state on the way.
C10_ParallelPuts ==
    /\ []NoneLost
    /\ [][PutKeepsOthers]_vars
    /\ \A h \in {"h1", "h2"} : (req[h].pc # "idle" ~> Responding(h))

\* Two handlers have missed the same key: one has put, the other waits for
\* the write lock, and the other key is in the cache.
C10_Witness ==
    /\ DOMAIN items = {KeyA, KeyB}
    /\ resp.xcache = "MISS"
    /\ \E h, g \in Handlers :
          /\ Responding(h) /\ req[h].key = KeyA /\ ~req[h].found
          /\ req[g].pc = "wlock" /\ req[g].key = KeyA /\ ~req[g].found

\* The handler has derived a key.
HasKey(h) == req[h].key # <<>>

\* The source file of the key lies outside the root: its path relative to the
\* root is the parent or leads through it.
Outside(k) ==
    LET rel == RelPath(k)
    IN  rel = <<Dot, Dot>> \/ (Len(rel) >= 3 /\ SubSeq(rel, 1, 3) = <<Dot, Dot, Slash>>)

\* C11: a request whose source path, relative to the root, is ".." or starts
\* with "../" (the key "/" resolves to the sibling <root>.md) is answered 404
\* without a file read or a Put, and no key in the cache resolves outside the
\* root.
C11_TraversalIs404 ==
    /\ \A k \in DOMAIN items : ~Outside(k)
    /\ \A h \in Handlers :
          HasKey(h) /\ Outside(req[h].key)
              => /\ req[h].pc \in {"rlock", "read", "check", "done"}
                 /\ ~req[h].found
                 /\ req[h].body = NoBody
                 /\ Responding(h) => resp.status = 404

\* The request /.html has been answered while the sibling <root>.md exists.
C11_Witness ==
    /\ <<Slash>> \in DOMAIN files
    /\ \E h \in Handlers :
          /\ Responding(h)
          /\ req[h].path = <<Slash>> \o HtmlSuffix
          /\ req[h].key = <<Slash>>
          /\ resp.status = 404

\* Position i of p starts a segment.
SegStart(p, i) == i = 1 \/ p[i - 1] = Slash

\* Position i of p ends a segment.
SegEnd(p, i) == i = Len(p) \/ p[i + 1] = Slash

\* p has a "." or ".." segment or a doubled separator.
Unclean(p) ==
    \E i \in 1..Len(p) :
        \/ p[i] = Dot /\ SegStart(p, i) /\ SegEnd(p, i)
        \/ /\ i < Len(p) /\ p[i] = Dot /\ p[i + 1] = Dot
           /\ SegStart(p, i) /\ SegEnd(p, i + 1)
        \/ i < Len(p) /\ p[i] = Slash /\ p[i + 1] = Slash

\* The lexically cleaned path, its trailing slash kept unless it is the root.
Canonical(p) ==
    IF p[Len(p)] = Slash /\ Clean(p) # <<Slash>> THEN Clean(p) \o <<Slash>> ELSE Clean(p)

\* C12: a request path with a "." or ".." segment or a doubled separator is
\* answered 301 with the cleaned path as Location, which has none of these,
\* and the handler neither looks the cache up nor reads a file nor puts.
C12_UncleanIs301 ==
    \A h \in Handlers :
        req[h].path # <<>> /\ Unclean(req[h].path)
            => /\ Responding(h)
               /\ resp.status = 301
               /\ resp.location = Canonical(req[h].path)
               /\ ~Unclean(resp.location)
               /\ ~HasKey(h) /\ ~req[h].found /\ req[h].body = NoBody

\* /a/../ has been answered with a redirect to the root.
C12_Witness ==
    \E h \in Handlers :
        /\ Responding(h)
        /\ req[h].path = <<Slash, "a", Slash, Dot, Dot, Slash>>
        /\ resp.status = 301
        /\ resp.location = <<Slash>>

\* The Locations the handler sends for the paths of AllPaths.
Locations == {CleanedPath(q) : q \in {r \in AllPaths : CleanedPath(r) # r}}

\* Normalizing a normalized path changes nothing.
NormalizeTwice ==
    /\ \A h \in Handlers :
          req[h].path # <<>>
              => CleanedPath(CleanedPath(req[h].path)) = CleanedPath(req[h].path)
    /\ resp.status = 301 => CleanedPath(resp.location) = resp.location

\* A request for a path the handler sends as Location is not redirected.
NoSecondRedirect ==
    \A h \in Handlers :
        req[h].pc = "idle" /\ req'[h].pc # "idle" /\ req'[h].path \in Locations
            => resp'.status # 301

\* C13: normalization (path.Clean, trailing slash kept) is idempotent, so the
\* Location of a 301 is a path the handler does not redirect again.
C13_NormalizeIdempotent == []NormalizeTwice /\ [][NoSecondRedirect]_vars

\* /a/, the Location sent for /a//, /a/./ and others, has been requested and
\* answered without a redirect.
C13_Witness ==
    \E h \in Handlers :
        /\ Responding(h)
        /\ req[h].path = <<Slash, "a", Slash>>
        /\ req[h].path \in Locations
        /\ resp.status = 404

\* p ends with ".html".
EndsHtml(p) == Len(p) >= 2 /\ p[Len(p) - 1] = Dot /\ p[Len(p)] = "html"

\* C14: with the strict suffix on, a canonical path that does not end with
\* ".html" (the root and directory paths too) is answered 404 without cache
\* lookup, file read or Put, and a path that is not canonical is answered 301
\* whatever its suffix.
C14_StrictSuffix ==
    cfg.StrictHtmlUrl =>
        \A h \in Handlers :
            req[h].path # <<>> =>
                LET p == req[h].path
                IN  /\ Canonical(p) # p => Responding(h) /\ resp.status = 301
                    /\ Canonical(p) = p /\ ~EndsHtml(p)
                          => /\ Responding(h) /\ resp.status = 404
                             /\ ~HasKey(h) /\ ~req[h].found /\ req[h].body = NoBody
                    /\ Canonical(p) = p /\ EndsHtml(p) => HasKey(h)

\* With the strict suffix on, the directory path /a/ has been answered 404.
C14_Witness ==
    /\ cfg.StrictHtmlUrl
    /\ \E h \in Handlers :
          /\ Responding(h)
          /\ req[h].path = <<Slash, "a", Slash>>
          /\ resp.status = 404
          /\ ~HasKey(h)

\* A reader holds the lock only while no writer does.
ReadersExcludeWriter ==
    /\ writer # NoLock => readers = {}
    /\ \A h \in Handlers : req[h].pc = "read" => h \in readers /\ writer = NoLock
    /\ \A h \in Handlers : req[h].pc = "put" => writer = h

\* An item stays as it was put until the Put of its own key replaces it, and
\* leaves the cache only by a clear, by the eviction of another key's Put or by
\* the delete pass of a sweep that collected its key.
StaysUntilRemoved ==
    \A k \in DOMAIN items :
        /\ k \in DOMAIN items' /\ items'[k] # items[k]
              => \E h \in Handlers : writer = h /\ req[h].key = k
        /\ k \notin DOMAIN items'
              => \/ writer = "clear"
                 \/ writer = "gc" /\ k \in gc.keys
                 \/ \E h \in Handlers :
                       writer = h /\ req[h].key # k /\ NeedsEvict(cfg, items, req[h].key)

\* C15: a Get that takes the read lock after a Put of its key released the
\* write lock finds the item of that Put, or of a later Put of the key, unless
\* a clear, an eviction or a sweep removed it in between.
C15_PutVisible ==
    /\ []ReadersExcludeWriter
    /\ [][StaysUntilRemoved /\ LookupReadsMap]_vars

\* A sweep has collected a key and waits for the write lock; the key was put
\* again meanwhile and a Get has found the new item.
C15_Witness ==
    /\ gc.pc = "wlock"
    /\ writer = NoLock
    /\ \E h \in Handlers :
          /\ req[h].pc = "check" /\ req[h].found
          /\ req[h].key \in gc.keys
          /\ req[h].key \in DOMAIN items
          /\ items[req[h].key] = req[h].item
          /\ req[h].item.Expires > now

\* The item of k was rendered from a version of the file older than the one
\* on disk.
Stale(k) == k \in DOMAIN items /\ k \in DOMAIN files /\ items[k].Content.ver < files[k]

\* A clear leaves the handlers where they are, with what they have read.
ClearSparesRequests == writer = "clear" /\ writer' = NoLock => req' = req

\* A Put stores what its handler read and rendered before it took the lock,
\* whatever the file holds by then.
PutStoresWhatWasRead ==
    /\ \A h \in Handlers :
          req[h].pc = "wlock" /\ req'[h].pc = "put" => req'[h].body = req[h].body
    /\ \A h \in Handlers :
          req[h].pc = "put" /\ req'[h].pc = "done"
              => items'[req[h].key].Content = req[h].body

\* A stale item stays until a clear or an eviction removes it or a Put of its
\* key replaces it.
StaleStays ==
    \A k \in DOMAIN items :
        Stale(k) /\ writer = NoLock => k \in DOMAIN items' /\ items'[k] = items[k]

\* C16: a clear does not cancel a request that has read its file: the request
\* puts after the clear, and the cache then holds an item rendered from the
\* content before the change, which stays until it is evicted, expires or is
\* cleared.
C16_StaleAfterClear ==
    [][ClearSparesRequests /\ PutStoresWhatWasRead /\ StaleStays]_vars

\* The file changed, the clear for the change has run and nothing more is
\* pending, and the cache holds the rendering of the old content.
C16_Witness ==
    /\ burst.events >= 1 /\ burst.fires = 1
    /\ callbacks = 0 /\ writer = NoLock
    /\ DOMAIN timers = {} /\ events = <<>>
    /\ Stale(KeyA)
    /\ \A h \in Handlers : req[h].pc = "idle"

\* The item of k has expired.
Expired(k) == k \in DOMAIN items /\ now > items[k].Expires

\* A scan collects every item that has expired, and the delete pass after it
\* removes every key collected.
SweepTakesExpired ==
    /\ gc.pc = "scan" /\ gc'.pc # "scan"
          => \A k \in DOMAIN items : Expired(k) => gc'.pc = "wlock" /\ k \in gc'.keys
    /\ gc.pc = "delete" /\ gc'.pc # "delete"
          => \A k \in gc.keys : k \notin DOMAIN items'

\* C17: with a finite lifetime and the cleaner running, an item that has
\* expired is removed or replaced in the end, at the latest by the first sweep
\* that scans after its expiry.
C17_ExpiredIsSwept ==
    /\ \A k \in {KeyA, KeyB} : Expired(k) ~> ~Expired(k)
    /\ [][SweepTakesExpired]_vars

\* The delete pass is about to remove an expired item and to leave one that
\* has not expired.
C17_Witness ==
    /\ gc.pc = "delete" /\ writer = "gc"
    /\ \E k \in gc.keys : Expired(k)
    /\ \E k \in DOMAIN items \ gc.keys : ~Expired(k)

\* An item is taken out of the cache or changed only inside a write-locked
\* section of a handler or of the reload callback, never by the cleaner.
OnlyPutOrClearRemoves ==
    \A k \in DOMAIN items :
        /\ k \notin DOMAIN items'
              => \/ writer = "clear"
                 \/ \E h \in Handlers :
                       writer = h /\ req[h].key # k /\ NeedsEvict(cfg, items, req[h].key)
        /\ k \in DOMAIN items' /\ items'[k] # items[k]
              => \E h \in Handlers : writer = h /\ req[h].key = k

\* C18: when the cache never expires the cleaner is not started and no sweep
\* runs: an item leaves the cache only by a clear, by eviction or by the Put
\* of its own key, whatever Expires it records.
C18_NoSweepWhenIndefinite ==
    /\ [](~Finite => gc.pc = "off" /\ writer # "gc" /\ "gc" \notin readers)
    /\ [][~Finite => OnlyPutOrClearRemoves]_vars

\* At the end of the horizon the cache still holds an item put at the start,
\* and no request is under way.
C18_Witness ==
    /\ ~Finite
    /\ now = MaxTime
    /\ \E k \in DOMAIN items : items[k].Expires = 0
    /\ \A h \in Handlers : req[h].pc = "idle"

\* C19: once the context is cancelled, the cleaner at its select starts no
\* further sweep and the watcher at its select takes no further file event:
\* each returns at that select.
C19_StopsAtSelect ==
    [][ctx = "done"
          => /\ gc.pc = "select" => gc'.pc \in {"select", "stopped"}
             /\ wt.pc = "select" => Len(events') >= Len(events)]_vars

\* C20: a panic in a sweep is caught and the cleaner is back at its select,
\* to sweep again at the next tick.
C20_SweepsAfterPanic ==
    [][gc.pc = "panic" /\ gc'.pc # "panic" => gc'.pc = "select"]_vars

\* An item is the rendering of the document of its key, of a version the
\* file has had.
StoredIsRendered ==
    \A k \in DOMAIN items :
        /\ items[k].Content.doc = k
        /\ k \in DOMAIN files /\ items[k].Content.ver \in 0..files[k]

\* A hit sends the content of the item the lookup found under the key.
HitSendsStored ==
    \A h \in Handlers :
        Responding(h) /\ resp.xcache = "HIT"
            => /\ req[h].found
               /\ resp.body = req[h].item.Content
               /\ resp.body.doc = req[h].key

\* An item in the map changes only when a handler holding the write lock
\* stores a whole new item under that key: the content it rendered, which is
\* the body of its MISS response, and the expiry counted from that moment.
EntryFixed ==
    \A k \in DOMAIN items \cap DOMAIN items' :
        items'[k] # items[k]
            => \E h \in Handlers :
                  /\ writer = h /\ req[h].pc = "put" /\ req[h].key = k
                  /\ items'[k] = [Content |-> req[h].body,
                                  Expires |-> now + cfg.CacheLimit]
                  /\ resp'.xcache = "MISS" /\ resp'.body = items'[k].Content

\* C23: a HIT body is the content stored by the Put that made the item found
\* under the key, which is the body of that Put's MISS; content and expiry of
\* an item never change after insertion, and a Put for a key already present
\* replaces the item as a whole.
C23_HitIsStored == [](StoredIsRendered /\ HitSendsStored) /\ [][EntryFixed]_vars

\* A hit is answered from an item that was stored after the clock had moved
\* on, and that item is still in the map as it was found.
C23_Witness ==
    /\ Finite
    /\ resp.xcache = "HIT"
    /\ \E h \in Handlers :
          /\ Responding(h)
          /\ req[h].key \in DOMAIN items
          /\ resp.body = items[req[h].key].Content
          /\ items[req[h].key].Expires > cfg.CacheLimit + 1

\* What one Put does to the map: gone are the keys it removes.
PutEvictsOne ==
    \A h \in Handlers :
        req[h].pc = "put" /\ req'[h].pc = "done"
            => LET k == req[h].key
                   gone == DOMAIN items \ DOMAIN items'
                   full == Cardinality(DOMAIN items) >= cfg.MaxCacheItems
               IN  /\ full /\ k \notin DOMAIN items
                        => Cardinality(gone) = 1 /\ k \notin gone
                   /\ ~full \/ k \in DOMAIN items => gone = {}
                   /\ k \in DOMAIN items
                        => Cardinality(DOMAIN items') = Cardinality(DOMAIN items)
                   /\ DOMAIN items' = (DOMAIN items \ gone) \cup {k}
                   /\ \A x \in DOMAIN items' \ {k} : items'[x] = items[x]

\* C25: a Put evicts exactly one item, not its own key, when the map holds
\* MaxCacheItems items or more and the key is absent; it evicts nothing when
\* the key is present (the size stays, also at capacity) or the map is below
\* capacity; every item but the key's and the evicted one stays as it was.
C25_PutEvictsOne == [][PutEvictsOne]_vars

\* A Put of a key that was absent has completed on a full map, and a key
\* another handler had found there is gone: it was evicted.
C25_Witness ==
    /\ resp.xcache = "MISS"
    /\ Cardinality(DOMAIN items) = cfg.MaxCacheItems
    /\ \E h, g \in Handlers :
          /\ Responding(h) /\ ~req[h].found
          /\ req[g].pc = "check" /\ req[g].found /\ req[g].key \notin DOMAIN items

\* A step of a handler other than its Put leaves the map alone, whatever the
\* answer it leads to: a redirect, a 404, a 500 or a hit.
OnlyPutWrites ==
    \A h \in Handlers :
        /\ req'[h] # req[h] /\ req[h].pc # "put" => items' = items
        /\ req[h].pc # "done" /\ req'[h].pc = "done"
            /\ (resp'.status \in {301, 404, 500} \/ resp'.xcache = "HIT")
                => items' = items

\* A key comes into the map only by the Put of a handler that answers 200 as
\* a miss; a key leaves it only by that Put's eviction, by the delete pass of
\* a sweep or by a clear.
CreatedAndRemoved ==
    LET created == DOMAIN items' \ DOMAIN items
        removed == DOMAIN items \ DOMAIN items'
    IN  /\ created # {}
            => \E h \in Handlers :
                  /\ writer = h /\ req[h].pc = "put" /\ created = {req[h].key}
                  /\ resp'.status = 200 /\ resp'.xcache = "MISS"
                  /\ Responding(h)'
        /\ removed # {}
            => \/ \E h \in Handlers :
                     /\ writer = h /\ req[h].pc = "put"
                     /\ req[h].key \in created
                     /\ Cardinality(DOMAIN items) >= cfg.MaxCacheItems
               \/ writer = "gc" /\ gc.pc = "delete" /\ removed \subseteq gc.keys
               \/ writer = "clear" /\ items' = <<>>

\* C26: items are created only by a request that missed and rendered (200,
\* MISS); a request ending in 301, 404 or 500 and a request served as a hit
\* leave the map as it was; items are removed only by a sweep, a clear or an
\* eviction inside a Put.
C26_OnlyMissCreates == [][OnlyPutWrites /\ CreatedAndRemoved]_vars

\* A request for a document that does not exist is answered 404 while the
\* map holds other items, and its key is not among them.
C26_Witness ==
    /\ resp.status = 404
    /\ items # <<>>
    /\ \E h \in Handlers :
          Responding(h) /\ HasKey(h) /\ req[h].key \notin DOMAIN items

\* Where a handler does more than work on the map: taking the request and
\* normalising its path, waiting for a lock, testing the copy of the item,
\* resolving, reading and rendering the file, writing the response.
OffTheMap(h) == req[h].pc \in {"idle", "rlock", "check", "wlock", "done"}

\* C30: a holder of the read or the write lock is at its lookup, its scan, its
\* evict-and-insert, its delete pass or its clear; nobody holds the lock while
\* reading a file, rendering, or writing a response.
C30_LockOnlyOnMap ==
    /\ \A h \in Handlers :
          /\ h \in readers => req[h].pc = "read"
          /\ writer = h => req[h].pc = "put"
          /\ OffTheMap(h) => h \notin readers /\ writer # h
    /\ "gc" \in readers => gc.pc = "scan"
    /\ writer = "gc" => gc.pc = "delete"
    /\ writer \in Handlers \cup {"gc", "clear", NoLock}
    /\ readers \subseteq Handlers \cup {"gc"}

\* A handler holds the write lock for its Put while another, between its
\* lookup and its file read, holds none.
C30_Witness ==
    \E h, g \in Handlers :
        /\ writer = h /\ req[h].pc = "put"
        /\ req[g].pc = "check" /\ ~req[g].found
        /\ g \notin readers

\* C21: a panic while the watcher handles an event, or in the debounced
\* clear, is caught: the process goes on and the watcher is back at its
\* select for the events that follow.
C21_WatcherSurvivesPanic ==
    [][/\ wt'.pc # "crashed"
       /\ wt.pc = "panic" /\ wt'.pc # "panic" => wt'.pc = "select"]_vars

\* Hot reload was asked for and fsnotify.NewWatcher() has failed.
Degraded == cfg.HotReload /\ wt.pc # "init" /\ wt.watcher = "none"

\* Without a watcher nothing is registered, no event is taken, no timer is
\* armed and no clear runs; the process goes on.
NoHotReload ==
    Degraded
        => /\ wt.pc = "failed"
           /\ wt.watched = {}
           /\ events = <<>> /\ timers = NoTimers /\ callbacks = 0
           /\ writer # "clear"
           /\ Alive

\* Without a watcher watchFiles has returned for good, and a key leaves the
\* map only by the delete pass of a sweep or by the eviction of a Put.
OnlySweepOrEvict ==
    Degraded
        => /\ wt' = wt
           /\ DOMAIN items \ DOMAIN items' # {}
                => \/ writer = "gc" /\ gc.pc = "delete"
                   \/ \E h \in Handlers : writer = h /\ req[h].pc = "put"

\* C22: when the notification mechanism fails to initialize the watcher
\* stops without registering a directory and never clears the cache; the
\* process is not ended, requests are answered and the cleaner sweeps, so
\* items go only by sweep or eviction.
C22_DegradedNoClear == []NoHotReload /\ [][OnlySweepOrEvict]_vars

\* After the failure a request is answered from a fresh rendering while the
\* cleaner is in the middle of a sweep.
C22_Witness ==
    /\ Degraded
    /\ resp.xcache = "MISS"
    /\ gc.pc = "wlock"

\* The watcher takes the event at the head of the queue and is back at its
\* select.
Handles ==
    /\ wt.pc = "select" /\ wt'.pc = "select"
    /\ events # <<>>
    /\ events' = Tail(events)

\* An event on a name that neither begins with "." nor ends with "~".
Unfiltered(e) == ~e.hidden /\ ~e.backup

\* A write or a create of a source document, or a rename or a remove of
\* anything.
Relevant(e) ==
    \/ e.md /\ e.op \in {"write", "create"}
    \/ e.op \in {"rename", "remove"}

\* C27: an unfiltered event starts or restarts the debounce timer if and only
\* if it is relevant; any other event, a permission change of a .md file
\* among them, arms no timer and so leads to no clear.
C27_TimerIffRelevant ==
    [][Handles /\ Unfiltered(Head(events))
          => /\ Relevant(Head(events))
                => /\ wt'.debounceTimer = now + DebounceTicks
                   /\ Armed(timers', now + DebounceTicks)
             /\ ~Relevant(Head(events))
                => /\ wt'.debounceTimer = wt.debounceTimer
                   /\ timers' = timers]_vars

\* C28: an event on a name that begins with "." or ends with "~" is dropped
\* whatever its operation and whether or not the name ends in .md: taking it
\* changes neither the timers, nor the watcher's timer handle, nor the
\* registered directories, and starts no callback.
C28_FilteredIsDropped ==
    [][Handles /\ (Head(events).hidden \/ Head(events).backup)
          => /\ wt' = wt
             /\ timers' = timers
             /\ callbacks' = callbacks
             /\ burst' = burst
             /\ items' = items]_vars

\* A hidden directory was made while the root was watched; the event has
\* been taken, the directory is not registered and no timer was ever armed.
C28_Witness ==
    /\ wt.pc = "select"
    /\ Root \in wt.watched
    /\ DirHidden \in tree /\ DirHidden \notin wt.watched
    /\ events = <<>>
    /\ timers = NoTimers /\ wt.debounceTimer = NoTimer /\ callbacks = 0

\* No step takes a directory out of the registered set.
WatchSetGrows == wt.watched \subseteq wt'.watched

\* At startup the walk from the root registers every directory that exists,
\* but for those watcher.Add refuses; it registers nothing that is not there.
StartupRegistersAll ==
    wt.pc = "init" /\ wt'.pc = "select"
        => /\ tree \ FlakyDirs \subseteq wt'.watched
           /\ wt'.watched \subseteq tree

\* A create event that resolves to a directory registers that directory and
\* the directories below it, but for those watcher.Add refuses.
CreateRegistersSubtree ==
    Handles /\ Unfiltered(Head(events)) /\ Head(events).op = "create"
            /\ Head(events).name \in tree
        => Under(Head(events).name, tree) \ FlakyDirs \subseteq wt'.watched

MdFiles(es) == {e \in es : ~e.dir /\ HasSuffix(e.path, MdSuffix)}

\* The path of a file without its .md.
NoExt(rel) == SubSeq(rel, 1, Len(rel) - 2)

\* The URL the list is to show for a file: without strict mode the directory
\* with its trailing slash for index.md and the path without extension for
\* any other file, with strict mode the path with .html for .md.
StatedURL(strict, rel) ==
    IF strict THEN <<BaseURL, Slash>> \o NoExt(rel) \o HtmlSuffix
    ELSE IF BaseName(rel) = <<"index", Dot, "md">>
         THEN <<BaseURL, Slash>> \o SubSeq(rel, 1, Len(rel) - 3)
    ELSE <<BaseURL, Slash>> \o NoExt(rel)

\* C24: list mode prints one URL for each .md file under the root, in
\* ascending string order, mapped as StatedURL says; when the root is missing
\* or not a directory it returns an error and prints nothing.
C24_ListExact ==
    out.pc = "listed"
        => IF out.root # "dir"
           THEN out.err /\ out.urls = <<>>
           ELSE /\ ~out.err
                /\ Len(out.urls) = Cardinality(MdFiles(out.entries))
                /\ \A e \in MdFiles(out.entries) :
                      \E i \in DOMAIN out.urls :
                         out.urls[i] = StatedURL(cfg.StrictHtmlUrl, e.path)
                /\ \A i \in DOMAIN out.urls :
                      \E e \in MdFiles(out.entries) :
                         out.urls[i] = StatedURL(cfg.StrictHtmlUrl, e.path)
                /\ \A i \in DOMAIN out.urls : \A j \in DOMAIN out.urls :
                      i < j => ~StrLess(Flat(out.urls[j]), Flat(out.urls[i]))

\* ------------------------------------------------------------ key shape
\* k begins with the separator, has no "." or ".." segment and no doubled
\* separator, and ends in a separator only when it is the root key.
WellFormedKey(k) ==
    /\ k # <<>> /\ k[1] = Slash
    /\ ~Unclean(k)
    /\ k[Len(k)] = Slash => k = <<Slash>>

\* C32: every key a handler looks up and every key in the cache begins with
\* "/", has no "." or ".." segment, no doubled separator, and no trailing
\* slash unless it is the root key.
C32_KeysWellFormed ==
    /\ \A k \in DOMAIN items : WellFormedKey(k)
    /\ \A h \in Handlers : HasKey(h) => WellFormedKey(req[h].key)

\* /a/..html has been served from the cache entry /a: cutting the suffix left
\* a "." segment which the second cleaning removed.
C32_Witness ==
    /\ KeyA \in DOMAIN items
    /\ \E h \in Handlers :
          /\ Responding(h)
          /\ req[h].path = <<Slash, "a", Slash, Dot>> \o HtmlSuffix
          /\ req[h].key = KeyA
          /\ resp.status = 200

\* ------------------------------------------------------- the root result
\* The request path of h after "index" is appended to a trailing slash, the
\* document suffix is cut and the result is cleaned.
Stripped(h) ==
    LET p == req[h].path
        withIndex == IF p[Len(p)] = Slash THEN Append(p, "index") ELSE p
    IN  Clean(TrimSuffix(withIndex, HtmlSuffix))

\* C33: a canonical request whose path, with the suffix cut and cleaned
\* again, is empty (".") or the root "/" is looked up under the key /index
\* and is not answered 404 for lying outside the root.
C33_RootIsIndex ==
    \A h \in Handlers :
        HasKey(h) /\ Stripped(h) \in {<<Dot>>, <<Slash>>}
            => /\ req[h].key = KeyIndex
               /\ ~Outside(req[h].key)

\* ------------------------------------------------- the second cleaning
\* The request path of h with "index" appended after a trailing slash and at
\* most one trailing document suffix removed, not cleaned again.
CutPath(h) ==
    LET p == req[h].path
        withIndex == IF p[Len(p)] = Slash THEN Append(p, "index") ELSE p
    IN  IF HasSuffix(withIndex, HtmlSuffix)
        THEN SubSeq(withIndex, 1, Len(withIndex) - Len(HtmlSuffix))
        ELSE withIndex

\* The directory part of a path: everything before its last separator.
RECURSIVE DirOf(_)
DirOf(p) ==
    IF p = <<>> \/ p[Len(p)] = Slash THEN p ELSE DirOf(SubSeq(p, 1, Len(p) - 1))

\* C37: for a request that is not redirected the second cleaning changes
\* nothing, the key is the request path with "index" appended after a
\* trailing slash and at most one trailing ".html" removed, and a document
\* served with 200 lies in the directory of the path requested.
C37_SecondCleanIsIdentity ==
    \A h \in Handlers :
        HasKey(h)
            => /\ req[h].key = CutPath(h)
               /\ Responding(h) /\ resp.status = 200
                     => DirOf(req[h].key) = DirOf(req[h].path)

\* ------------------------------------------------- clear after the stop
\* After the watcher has returned on cancellation no debounce timer fires
\* and no Clear takes the lock.
QuietAfterStop ==
    wt.pc = "stopped"
        => /\ callbacks' <= callbacks
           /\ writer' = "clear" => writer = "clear"

\* C36: once the watcher loop has ended on cancellation no Clear is made on
\* its behalf; a debounce timer pending at that moment does not fire.
C36_NoClearAfterStop == [][QuietAfterStop]_vars

\* ---------------------------------------------------- startup clamping
\* The configuration the server runs with is a configured one with a negative
\* lifetime replaced by 0 and a maximum below 1 replaced by 1000.
Normalized ==
    \E raw \in RawConfigs :
        /\ cfg.CacheLimit = IF raw.CacheLimit < 0 THEN 0 ELSE raw.CacheLimit
        /\ cfg.MaxCacheItems = IF raw.MaxCacheItems < 1 THEN 1000 ELSE raw.MaxCacheItems
        /\ cfg.HotReload = raw.HotReload
        /\ cfg.StrictHtmlUrl = raw.StrictHtmlUrl

\* C39: in the running server the lifetime is never negative, a negative
\* configured one having become 0, the maximum is at least 1, a configured
\* one below 1 having become 1000, the cleaner runs only for a positive
\* lifetime, and the cache never holds more entries than the maximum.
C39_StartupNormalizes ==
    /\ Normalized
    /\ cfg.CacheLimit >= 0
    /\ cfg.MaxCacheItems >= 1
    /\ gc.pc = "off" <=> cfg.CacheLimit = 0
    /\ Cardinality(DOMAIN items) <= cfg.MaxCacheItems

\* A server configured with a negative lifetime and the maximum 0 runs with
\* the lifetime 0 and the maximum 1000, without a cleaner, and has cached
\* both documents.
C39_Witness ==
    /\ cfg.CacheLimit = 0 /\ cfg.MaxCacheItems = 1000
    /\ gc.pc = "off"
    /\ Cardinality(DOMAIN items) = 2

\* --------------------------------------------------- names of a document
\* The key the names of a document share: /d/index for the directory /d/ and
\* its index document, the path without ".html" otherwise.
SharedKey(p) ==
    IF p[2] = "d" THEN <<Slash, "d", Slash, "index">> ELSE <<Slash, "a">>

\* A lookup is made under the shared key of the path, so it finds the entry
\* whichever name created it; what is found is served as a HIT, what is not
\* is stored under the shared key and served as a MISS.
SharedLookup ==
    \A h \in Handlers :
        /\ HasKey(h) => req[h].key = SharedKey(req[h].path)
        /\ req[h].pc = "check" => (req[h].found <=> SharedKey(req[h].path) \in DOMAIN items)
        /\ Responding(h) /\ req[h].found => resp.status = 200 /\ resp.xcache = "HIT"
        /\ Responding(h) /\ resp.xcache = "MISS"
              => ~req[h].found /\ SharedKey(req[h].path) \in DOMAIN items

\* An entry stays: nothing expires, is evicted or is cleared here.
EntriesStay == DOMAIN items \subseteq DOMAIN items'

\* C34: without strict mode /d/, /d/index and /d/index.html resolve to the
\* key /d/index, /a and /a.html to the key /a; the names of a document share
\* one entry, so once a MISS on one name has stored it a request for any
\* name of the document is a HIT.
C34_AliasesShareEntry == []SharedLookup /\ [][EntriesStay]_vars

\* The directory path /d/ is served as a HIT from the entry /d/index while
\* the cache holds that entry only.
C34_Witness ==
    /\ DOMAIN items = {<<Slash, "d", Slash, "index">>}
    /\ \E h \in Handlers :
          /\ Responding(h)
          /\ req[h].path = <<Slash, "d", Slash>>
          /\ resp.status = 200 /\ resp.xcache = "HIT"

\* ------------------------------------------------------ one lock for all
\* Who holds the lock is not waiting for it: a handler holds the read lock
\* only while it looks up and the write lock only while it puts, the cleaner
\* the read lock only while it scans and the write lock only while it
\* deletes, and a writer is alone.
NoHoldAndWait ==
    /\ \A h \in Handlers :
          /\ h \in readers => req[h].pc = "read"
          /\ writer = h => req[h].pc = "put"
    /\ "gc" \in readers => gc.pc = "scan"
    /\ writer = "gc" => gc.pc = "delete"
    /\ writer # NoLock => readers = {}

\* A response carries one of the four statuses.
OneStatus == resp # NoResp => resp.status \in {200, 301, 404, 500}

\* C31: handlers, cleaner and clear on the one lock do not deadlock, and when
\* every goroutine that can run does run every request is answered, with one
\* of 200, 301, 404 or 500, every sweep returns to its ticker and every clear
\* that a timer started gets the lock and gives it back.
C31_NoDeadlock ==
    /\ []NoHoldAndWait
    /\ []OneStatus
    /\ \A h \in {"h1", "h2"} : req[h].pc # "idle" ~> Responding(h)
    /\ gc.pc # "select" ~> gc.pc = "select"
    /\ (callbacks > 0 \/ writer = "clear") ~> (callbacks = 0 /\ writer # "clear")

\* The clear holds the lock while the cleaner waits to delete and both
\* handlers wait, one to look up and one to put.
C31_Witness ==
    /\ writer = "clear"
    /\ gc.pc = "wlock"
    /\ req["h1"].pc = "rlock"
    /\ req["h2"].pc = "wlock"

\* ------------------------------------------------ the list and the server
\* C38: every URL list mode prints is served with 200 by the handler on the
\* same root with the same setting, names ending in .MD included.
C38_ListedIsServed ==
    \A h \in Handlers :
        Responding(h) /\ out.pc = "listed" => resp.status = 200

\* ------------------------------------------------- the cleaner's interval
\* Half the lifetime in ns, in seven limbs: no product is cut short.
HalfTTL == MulAdd(cfg.CacheLimit \o <<0, 0>>, 500000000, Word(0, 7))

\* x < y for numbers of seven limbs.
Below(x, y) ==
    \E i \in 1..7 : x[i] < y[i] /\ \A j \in (i + 1)..7 : x[j] = y[j]

\* The larger of half the lifetime and 60 s.
StatedInterval ==
    LET floor == MulAdd(Word(60, 7), 1000000000, Word(0, 7))
    IN  IF Below(HalfTTL, floor) THEN floor ELSE HalfTTL

\* C35: for a lifetime above 0 the cleaner runs with the interval
\* max(lifetime / 2, 60 s); for the lifetime 0 no interval is computed and
\* no cleaner is started.
C35_IntervalIsHalfTTL ==
    gc.pc # "boot"
        => IF cfg.CacheLimit = Word(0, 5)
           THEN gc.pc = "off" /\ cleanupInterval = <<>>
           ELSE gc.pc = "select" /\ cleanupInterval \o <<0, 0>> = StatedInterval

====
